---- MODULE Spec2Model ----
(***************************************************************************)
(* Verification model of the TikTok influencer scraper:                    *)
(*   - CDPXHRMonitor (src/src/scrapers/core_parts/requestMonitor.py):      *)
(*     the request/response correlation engine and its retrieval tasks;    *)
(*   - the authentication / session start-up path;                         *)
(*   - SessionState.should_continue and the orchestrator's budget checks;  *)
(*   - UnifiedTikTokScraper._determine_resume_point;                       *)
(*   - the orchestrator's entity and relationship maps and its checkpoints;*)
(*   - the deduplication of one unit of a phase scraper;                   *)
(*   - run_full_workflow on the orchestrator's data, fresh or resumed;     *)
(*   - the size classes of a response and the timeout of its body fetch;   *)
(*   - the per-post loop of the comments loader and its wait for the       *)
(*     comment section;                                                    *)
(*   - TikTokAuthenticator.verify_login_status;                            *)
(*   - the saved data directory under saves and clean-ups;                 *)
(*   - the monitor of a scraper on the page it shares with the others;     *)
(*   - the runs of one job, process after process, on one directory;       *)
(*   - _load_saved_state on a file that cannot be restored;                *)
(*   - the accounts file over the sessions of several processes.           *)
(* Each part has its own specification over the shared variable tuple; a   *)
(* specification leaves the variables of the other parts unchanged.        *)
(***************************************************************************)
EXTENDS Integers, Sequences, FiniteSets, TLC

VARIABLES
    \* ---- CDPXHRMonitor ----
    is_running,          \* self.is_running
    tracked_requests,    \* self.tracked_requests: request id -> index into infos (0: no entry)
    infos,               \* the RequestInfo objects ever created, in creation order
    tasks,               \* the retrieve_response_body_with_retry tasks, in creation order
    matched_responses,   \* self.matched_responses
    hist,                \* history: per RequestInfo, the number of loading-finished events handled
    fetch_errors,        \* history: the tasks a fetch of which met a non-retryable error, and
                         \* those of them that sent another fetch afterwards
    \* ---- authentication and session start-up ----
    accounts,            \* the platform's list in the accounts file
    session_file,        \* the cookie file <platform>.session.dat exists
    is_authenticated,    \* CDPXHRMonitor.is_authenticated of the profile loader
    browser_stops,       \* calls of stop_browser
    pl_session_active,   \* TikTokProfileLoader.session_active
    session_active,      \* UnifiedTikTokScraper.session_active
    auth_pc,             \* where the start-up is
    working_accounts,    \* the list _login_with_account_rotation iterates over
    login_idx,           \* the position of its for loop
    auth_hist,           \* history of the start-up: what was validated, who logged in
    \* ---- SessionState and the clock ----
    now,                 \* time.time() - session_start_time, in ticks
    session_duration_limit,   \* SessionState.session_duration_limit, in seconds
    grace_period_seconds,     \* UnifiedScraperConfig.grace_period_seconds
    grace_period_start,  \* SessionState.grace_period_start: {} for None, else {tick}
    should_stop,         \* SessionState.should_stop
    ret,                 \* history: what the last call of should_continue returned (<<>>: no call yet)
    \* ---- UnifiedTikTokScraper.run_full_workflow ----
    flow_pc,             \* position in run_full_workflow
    flow_idx,            \* index of the loop the workflow is in
    hashtags,            \* len(hashtags)
    profiles_data,       \* len(self.profiles_data)
    posts_by_profile,    \* profiles that have posts in self.posts_data
    checkpoints,         \* calls of _save_current_state
    fresh_check,         \* history: a budget check passed and no unit has started since
    units,               \* history: the units of work started
    \* ---- resume from a checkpoint ----
    saved_state,         \* the entity maps restored by _load_saved_state
    resume_point,        \* <<>> or <<what _determine_resume_point returned>>
    \* ---- the orchestrator's data ----
    orch,                \* entity maps, relationship maps and failed lists of UnifiedTikTokScraper
    saved_files,         \* the checkpoint files, newest first
    restored,            \* <<>> or <<the data of a fresh orchestrator after _load_saved_state>>
    ops,                 \* history: number of operations applied to the orchestrator
    \* ---- one unit of a phase scraper ----
    unit_kind,           \* which scraper works: "search", "posts" or "comments"
    max_per_unit,        \* max_profiles_per_hashtag / max_posts_per_profile / max_comments_per_post
    all_items,           \* all_profiles / all_posts / all_comments: the records of the captured responses
    unit_result,         \* <<>> or <<the list the unit returned>>
    \* ---- run_full_workflow on the orchestrator's data ----
    run_pc,              \* where run_full_workflow is
    run,                 \* its locals, and the state of the scrapers it drives
    run_hist,            \* history of the run: what was attempted, what was cut, what was deleted
    \* ---- the size classes of CDPXHRMonitor ----
    timeout,             \* self.timeout, in seconds
    request_info,        \* the RequestInfo of one tracked request
    retrieval,           \* <<>> or <<the delay and the timeout its retrieval task used>>
    \* ---- TikTokCommentsLoader.load_all_comments and the browser page ----
    loader_pc,           \* where the loop over posts_to_process is
    current_post_index,  \* self.current_post_index, counted from 1
    total_posts_to_process,   \* len(self.posts_to_process)
    open_posts,          \* the posts whose view is open on the page
    loader_hist,         \* history: posts clicked, posts _close_post was called for, overlaps
    \* ---- TikTokCommentsLoader._wait_for_comment_section ----
    wait_pc,             \* "loop", or how the call returned
    retry_count,         \* its local retry_count
    wait_elapsed,        \* seconds since start_time
    wait_hist,           \* history: the invalid-state errors and the other query errors met
    \* ---- TikTokAuth.verify_login_status ----
    page_checks,         \* what the page answers to each check of the call
    verify_pc,           \* the next check, or "returned"
    verify_log,          \* history: the checks run, and what was returned
    \* ---- the saved data directory ----
    save_clock,          \* datetime.now(), in seconds
    saved_dir,           \* the files tiktok_scraper_state_*.json: name and mtime
    just_saved,          \* history: what the call of _save_current_state just made did
    \* ---- a monitor on the shared page ----
    handlers,            \* the events of the page for which a handler of the monitor is registered
    session_inherited,   \* TikTokCommentsLoader.session_inherited
    page_stage,          \* history: per request id, the last event the page emitted for it
    unit_no,             \* history: the number of the scraping unit under way
    info_unit            \* history: per RequestInfo, the unit in which the request was initiated

monVars == <<is_running, tracked_requests, infos, tasks, matched_responses, hist, fetch_errors>>

authVars == <<accounts, session_file, is_authenticated, browser_stops, pl_session_active,
              session_active, auth_pc, working_accounts, login_idx, auth_hist>>

budgetVars == <<now, session_duration_limit, grace_period_seconds, grace_period_start,
                should_stop, ret>>

vars == <<is_running, tracked_requests, infos, tasks, matched_responses, hist, fetch_errors,
          accounts, session_file, is_authenticated, browser_stops, pl_session_active,
          session_active, auth_pc, working_accounts, login_idx, auth_hist,
          now, session_duration_limit, grace_period_seconds, grace_period_start,
          should_stop, ret,
          flow_pc, flow_idx, hashtags, profiles_data, posts_by_profile, checkpoints,
          fresh_check, units, saved_state, resume_point,
          orch, saved_files, restored, ops,
          unit_kind, max_per_unit, all_items, unit_result,
          run_pc, run, run_hist,
          timeout, request_info, retrieval,
          loader_pc, current_post_index, total_posts_to_process, open_posts, loader_hist,
          wait_pc, retry_count, wait_elapsed, wait_hist,
          page_checks, verify_pc, verify_log,
          save_clock, saved_dir, just_saved,
          handlers, session_inherited, page_stage, unit_no, info_unit>>

sizeVars == <<timeout, request_info, retrieval>>

loaderVars == <<loader_pc, current_post_index, total_posts_to_process, open_posts, loader_hist>>

waitVars == <<wait_pc, retry_count, wait_elapsed, wait_hist>>

verifyVars == <<page_checks, verify_pc, verify_log>>

filesVars == <<save_clock, saved_dir, just_saved>>

pageVars == <<handlers, session_inherited, page_stage, unit_no, info_unit>>

auxVars == <<sizeVars, loaderVars, waitVars, verifyVars, filesVars, pageVars>>

\* Empty histories.
NoLoaderHist == [clicked |-> {}, close_called |-> {}, opened_over |-> FALSE]
NoWaitHist == [invalid_state |-> 0, other |-> 0]
NoSave == [what |-> "none", removed |-> {}]

\* The events of uc.cdp.network a monitor has handlers for.
PageEvents == {"RequestWillBeSent", "ResponseReceived", "LoadingFinished", "LoadingFailed",
               "DataReceived"}

graphVars == <<orch, saved_files, restored, ops>>

unitVars == <<unit_kind, max_per_unit, all_items, unit_result>>

runVars == <<run_pc, run, run_hist>>

dataVars == <<graphVars, unitVars, runVars, auxVars>>

resumeVars == <<saved_state, resume_point>>

flowVars == <<flow_pc, flow_idx, hashtags, profiles_data, posts_by_profile, checkpoints,
              fresh_check, units>>

----------------------------------------------------------------------------
\* Bounds of the model
MaxInfos == 2        \* RequestInfo objects created in one run
MaxTasks == 2        \* retrieval tasks scheduled in one run
MaxAccounts == 2     \* accounts in the accounts file
TicksPerSecond == 2  \* resolution of the clock
MaxSessionMinutes == 1    \* UnifiedScraperConfig.session_duration_minutes ranges over 1..MaxSessionMinutes
HorizonSeconds == 125     \* the clock stops this long after the duration limit
MaxHashtags == 2     \* hashtags given to run_full_workflow
MaxSavedProfiles == 2     \* profiles in a checkpoint
MaxSavedPosts == 2   \* posts in a checkpoint
MaxComments == 2     \* comment ids
MaxOps == 3          \* operations applied to one orchestrator
MaxSaves == 1        \* calls of _save_current_state
MaxItemIds == 3      \* ids the records of one unit carry
MaxEngagement == 1   \* follower_count + heart_count ranges over 0..MaxEngagement
MaxCaptured == 4     \* records in the captured responses of one unit
MaxPerUnit == 2      \* the configured limit ranges over 1..MaxPerUnit
MaxTimeout == 31     \* the timeout of the monitor ranges over 1..MaxTimeout seconds
MaxLoaderPosts == 3  \* posts given to the comments loader for one profile
MaxWaitStart == 2    \* seconds the first URL check of _wait_for_comment_section may take
MaxSaveSeconds == 5  \* seconds over which _save_current_state is called
MaxUnits == 2        \* scraping units (profiles, posts) one monitor goes through

ReqIds == {"r1", "r2"}

\* Program constants of CDPXHRMonitor.__init__
max_retry_attempts == 3
large_response_threshold == 1048576

----------------------------------------------------------------------------
\* RequestState (enum)
INITIATED == "initiated"
RESPONSE_RECEIVED == "response_received"
LOADING_FINISHED == "loading_finished"
FAILED == "failed"
BODY_RETRIEVED == "body_retrieved"

RequestState == {INITIATED, RESPONSE_RECEIVED, LOADING_FINISHED, FAILED, BODY_RETRIEVED}

\* RequestInfo(request_id, url, state=INITIATED): response_data None, content_length None
\* (the empty set), is_large_response False.
RequestInfo(id) ==
    [request_id |-> id, state |-> INITIATED, has_response_data |-> FALSE,
     content_length |-> {}, is_large_response |-> FALSE]

\* The content-length header values an event may carry: absent, not an integer,
\* exactly the threshold, one byte above it.
ContentLengthHeaders ==
    { [present |-> FALSE, valid |-> FALSE, value |-> 0],
      [present |-> TRUE,  valid |-> FALSE, value |-> 0],
      [present |-> TRUE,  valid |-> TRUE,  value |-> large_response_threshold],
      [present |-> TRUE,  valid |-> TRUE,  value |-> large_response_threshold + 1] }

\* The headers the events of the monitor specification carry (the value at the
\* threshold is left to the specification of the size classes).
MonitorHeaders == {h \in ContentLengthHeaders : ~h.valid \/ h.value > large_response_threshold}

\* What page.send(get_response_body) under wait_for can do.
FetchOutcomes == {"body", "timeout", "not_found", "other_error"}

\* Mutant of IsResourceNotFound: every error is taken for a missing resource.
IsAnyError(outcome) == TRUE

\* "-32000" in error_msg or "No resource with given identifier" in error_msg
IsResourceNotFound(outcome) == outcome = "not_found"

\* Mutant of CanRetry: the loop bound taken for the number of attempts.
CanRetryOffByOne(attempt) == attempt + 1 < max_retry_attempts

\* attempt < self.max_retry_attempts
CanRetry(attempt) == attempt < max_retry_attempts

InitMonitor ==
    /\ is_running = TRUE
    /\ tracked_requests = [id \in ReqIds |-> 0]
    /\ infos = <<>>
    /\ tasks = <<>>
    /\ matched_responses = <<>>
    /\ hist = <<>>
    /\ fetch_errors = [met |-> {}, fetched_again |-> {}]

----------------------------------------------------------------------------
\* on_request_will_be_sent: a matching URL (re)places the entry of request_id by a
\* fresh RequestInfo; a non-matching URL changes nothing.
OnRequestWillBeSent(id, matches) ==
    IF ~is_running \/ ~matches
    THEN UNCHANGED monVars
    ELSE /\ Len(infos) < MaxInfos
         /\ infos' = Append(infos, RequestInfo(id))
         /\ tracked_requests' = [tracked_requests EXCEPT ![id] = Len(infos) + 1]
         /\ hist' = Append(hist, 0)
         /\ UNCHANGED <<is_running, tasks, matched_responses, fetch_errors>>

\* The content-length part of on_response_received: int(content_length) and the
\* comparison with the threshold; an absent header or a ValueError leaves both fields.
WithContentLength(info, h) ==
    IF h.present /\ h.valid
    THEN [info EXCEPT !.content_length = {h.value},
                      !.is_large_response = h.value > large_response_threshold]
    ELSE info

\* Mutant of OnResponseReceived: the body retrieval is scheduled when the headers
\* arrive.
OnResponseReceivedFetchesEarly(id, h) ==
    IF ~is_running \/ tracked_requests[id] = 0
    THEN UNCHANGED vars
    ELSE LET i == tracked_requests[id] IN
         /\ Len(tasks) < MaxTasks
         /\ infos' = [infos EXCEPT ![i] =
                WithContentLength([@ EXCEPT !.state = RESPONSE_RECEIVED,
                                            !.has_response_data = TRUE], h)]
         /\ tasks' = Append(tasks, [info |-> i, pc |-> "created", attempt |-> 0, fetches |-> 0,
                                    outcome |-> "none", only_retryable |-> TRUE])
         /\ UNCHANGED <<is_running, tracked_requests, matched_responses, hist, fetch_errors>>

OnResponseReceived(id, h) ==
    IF ~is_running \/ tracked_requests[id] = 0
    THEN UNCHANGED monVars
    ELSE LET i == tracked_requests[id] IN
         /\ infos' = [infos EXCEPT ![i] =
                WithContentLength([@ EXCEPT !.state = RESPONSE_RECEIVED,
                                            !.has_response_data = TRUE], h)]
         /\ UNCHANGED <<is_running, tracked_requests, tasks, matched_responses, hist, fetch_errors>>

\* on_data_received only prints.
OnDataReceived(id) == UNCHANGED vars

\* A new retrieval task holding a reference to the RequestInfo object.
NewTask(i) ==
    [info |-> i, pc |-> "created", attempt |-> 0, fetches |-> 0,
     outcome |-> "none", only_retryable |-> TRUE]

\* on_loading_finished: state := LOADING_FINISHED and asyncio.create_task(retrieve...).
ScheduleRetrieval(i) == tasks' = Append(tasks, NewTask(i))

OnLoadingFinished(id) ==
    IF ~is_running \/ tracked_requests[id] = 0
    THEN UNCHANGED monVars
    ELSE LET i == tracked_requests[id] IN
         /\ Len(tasks) < MaxTasks
         /\ infos' = [infos EXCEPT ![i].state = LOADING_FINISHED]
         /\ ScheduleRetrieval(i)
         /\ hist' = [hist EXCEPT ![i] = @ + 1]
         /\ UNCHANGED <<is_running, tracked_requests, matched_responses, fetch_errors>>

\* on_loading_failed: state := FAILED, and nothing else.
LoadingFailedEffect(i) ==
    /\ infos' = [infos EXCEPT ![i].state = FAILED]
    /\ UNCHANGED matched_responses

OnLoadingFailed(id) ==
    IF ~is_running \/ tracked_requests[id] = 0
    THEN UNCHANGED monVars
    ELSE LET i == tracked_requests[id] IN
         /\ LoadingFailedEffect(i)
         /\ UNCHANGED <<is_running, tracked_requests, tasks, hist, fetch_errors>>

----------------------------------------------------------------------------
\* retrieve_response_body_with_retry, one action per stretch between awaits.

\* The record appended on success (lines 332-343) and on failure (lines 398-409).
\* (info and task are history fields: the object and the task the record comes from.)
SuccessResponse(t) ==
    [info |-> tasks[t].info, task |-> t, body |-> "data", error |-> FALSE,
     attempts_needed |-> tasks[t].attempt + 1]

FailedResponse(t) ==
    [info |-> tasks[t].info, task |-> t, body |-> "null", error |-> TRUE,
     attempts_needed |-> max_retry_attempts + 1]

\* The coroutine returns; its locals are gone, how it ended is kept as history.
TaskEnd(t, how, retryable) ==
    tasks' = [tasks EXCEPT ![t] = [info |-> @.info, pc |-> "done", attempt |-> 0,
                                   fetches |-> 0, outcome |-> how,
                                   only_retryable |-> @.only_retryable /\ retryable]]

\* Entry check (line 294), then the initial delay.
TaskBegin(t) ==
    /\ t \in DOMAIN tasks
    /\ tasks[t].pc = "created"
    /\ IF ~is_running
       THEN TaskEnd(t, "abandoned", TRUE)
       ELSE tasks' = [tasks EXCEPT ![t].pc = "loop"]
    /\ UNCHANGED <<is_running, tracked_requests, infos, matched_responses, hist, fetch_errors>>

\* Mutant of TaskAttempt: the loop does not look at is_running.
TaskAttemptUnchecked(t) ==
    /\ t \in DOMAIN tasks
    /\ tasks[t].pc = "loop"
    /\ tasks' = [tasks EXCEPT ![t].pc = "fetching", ![t].fetches = @ + 1]
    /\ fetch_errors' = IF t \in fetch_errors.met
                       THEN [fetch_errors EXCEPT !.fetched_again = @ \cup {t}]
                       ELSE fetch_errors
    /\ UNCHANGED <<is_running, tracked_requests, infos, matched_responses, hist>>

\* Top of the for loop (lines 301-317): the is_running check, then the fetch is sent.
TaskAttempt(t) ==
    /\ t \in DOMAIN tasks
    /\ tasks[t].pc = "loop"
    /\ IF ~is_running
       THEN TaskEnd(t, "abandoned", TRUE)
       ELSE tasks' = [tasks EXCEPT ![t].pc = "fetching", ![t].fetches = @ + 1]
    /\ fetch_errors' = IF is_running /\ t \in fetch_errors.met
                       THEN [fetch_errors EXCEPT !.fetched_again = @ \cup {t}]
                       ELSE fetch_errors
    /\ UNCHANGED <<is_running, tracked_requests, infos, matched_responses, hist>>

\* Lines 393-409: the failed record is appended; the state is left as it is.
GiveUp(t, retryable) ==
    /\ matched_responses' = Append(matched_responses, FailedResponse(t))
    /\ TaskEnd(t, "failed", retryable)
    /\ UNCHANGED infos

\* Lines 354-364 and 372-387: sleep and continue, or break.
RetryOrGiveUp(t) ==
    IF CanRetry(tasks[t].attempt)
    THEN /\ tasks' = [tasks EXCEPT ![t].pc = "loop", ![t].attempt = @ + 1]
         /\ UNCHANGED <<infos, matched_responses>>
    ELSE GiveUp(t, TRUE)

\* Mutant of BodyArrived: the return after the success record is missing, so the
\* code after the loop appends the failure record as well.
BodyArrivedNoReturn(t) ==
    LET i == tasks[t].info IN
    /\ matched_responses' = Append(Append(matched_responses, SuccessResponse(t)), FailedResponse(t))
    /\ infos' = [infos EXCEPT ![i].state = BODY_RETRIEVED]
    /\ TaskEnd(t, "retrieved", FALSE)

\* Lines 319-352: the body arrived. request_info.response_data["status"] raises
\* TypeError when response_data is None; the except Exception branch takes it as a
\* non-retryable error.
BodyArrived(t) ==
    LET i == tasks[t].info IN
    IF infos[i].has_response_data
    THEN /\ matched_responses' = Append(matched_responses, SuccessResponse(t))
         /\ infos' = [infos EXCEPT ![i].state = BODY_RETRIEVED]
         /\ TaskEnd(t, "retrieved", FALSE)
    ELSE GiveUp(t, FALSE)

TaskFetchResult(t, outcome) ==
    /\ t \in DOMAIN tasks
    /\ tasks[t].pc = "fetching"
    /\ CASE outcome = "body" -> BodyArrived(t)
         [] outcome = "timeout" -> RetryOrGiveUp(t)
         [] IsResourceNotFound(outcome) -> RetryOrGiveUp(t)
         [] OTHER -> GiveUp(t, FALSE)
    /\ fetch_errors' = IF outcome \in {"body", "timeout", "not_found"}
                       THEN fetch_errors
                       ELSE [fetch_errors EXCEPT !.met = @ \cup {t}]
    /\ UNCHANGED <<is_running, tracked_requests, hist>>

\* stop_browser: self.is_running = False
StopBrowser ==
    /\ is_running
    /\ is_running' = FALSE
    /\ UNCHANGED <<tracked_requests, infos, tasks, matched_responses, hist, fetch_errors>>

----------------------------------------------------------------------------
\* Authentication and session start-up:
\* UnifiedTikTokScraper.start_session -> TikTokProfileLoader.start_session ->
\* CDPXHRMonitor.start_browser -> _ensure_authenticated_session ->
\* _login_with_account_rotation, with BaseAuth's account file operations.

Usernames == [n \in 1..MaxAccounts |-> <<"user", n>>]

\* lastFailure: absent, within the cooldown period before now, or older.
LastFailures == {"none", "recent", "old"}

\* An account of the file; has_credentials: username and password are non-empty.
AccountsOfLength(n) ==
    { a \in [1..n -> [username : {Usernames[k] : k \in 1..n}, has_credentials : BOOLEAN,
                      isWorking : BOOLEAN, lastFailure : LastFailures]] :
        \A k \in 1..n : a[k].username = Usernames[k] }

AccountFiles == UNION {AccountsOfLength(n) : n \in 0..MaxAccounts}

\* Mutant of IsAvailable: the cooldown is not looked at.
IsMarkedWorking(account) == account.isWorking

\* get_working_accounts: isWorking and not in cooldown, in file order.
IsAvailable(account) == account.isWorking /\ account.lastFailure # "recent"

RECURSIVE Filter(_, _)
Filter(seq, i) ==
    IF i > Len(seq) THEN <<>>
    ELSE (IF IsAvailable(seq[i]) THEN <<seq[i]>> ELSE <<>>) \o Filter(seq, i + 1)

get_working_accounts == Filter(accounts, 1)

\* mark_account_failed / mark_account_working: the first account with the username.
FirstWithUsername(username) ==
    IF \E k \in DOMAIN accounts : accounts[k].username = username
    THEN {CHOOSE k \in DOMAIN accounts :
              /\ accounts[k].username = username
              /\ \A j \in DOMAIN accounts : accounts[j].username = username => k <= j}
    ELSE {}

mark_account_failed(username) ==
    [k \in DOMAIN accounts |->
        IF k \in FirstWithUsername(username)
        THEN [accounts[k] EXCEPT !.isWorking = FALSE, !.lastFailure = "recent"]
        ELSE accounts[k]]

mark_account_working(username) ==
    [k \in DOMAIN accounts |->
        IF k \in FirstWithUsername(username)
        THEN [accounts[k] EXCEPT !.isWorking = TRUE, !.lastFailure = "none"]
        ELSE accounts[k]]

NoAuthHist == [cookie_valid |-> FALSE, login_ok |-> <<>>, attempts |-> <<>>,
               cookies_saved |-> FALSE, work_started |-> FALSE, auth_error |-> FALSE]

InitAuthObjects ==
    /\ is_authenticated = FALSE
    /\ browser_stops = 0
    /\ pl_session_active = FALSE
    /\ session_active = FALSE
    /\ auth_pc = "idle"
    /\ working_accounts = <<>>
    /\ login_idx = 0
    /\ auth_hist = NoAuthHist

\* The authentication part at rest (for the specifications of the other parts).
AuthIdle ==
    /\ accounts = <<>>
    /\ session_file = FALSE
    /\ InitAuthObjects

InitAuth ==
    /\ accounts \in AccountFiles
    /\ session_file \in BOOLEAN
    /\ InitAuthObjects

\* UnifiedTikTokScraper.start_session, up to the call of start_browser: both
\* session_active flags are tested first.
StartSession ==
    /\ auth_pc = "idle"
    /\ ~session_active /\ ~pl_session_active
    /\ auth_pc' = "ensure"
    /\ UNCHANGED <<accounts, session_file, is_authenticated, browser_stops, pl_session_active,
                   session_active, working_accounts, login_idx, auth_hist>>

\* Mutant of CookieSessionOk: loaded cookies are trusted without validation.
CookieSessionOkUnvalidated(loaded, valid) == loaded

\* Lines 115-117: load_cookies succeeded and validate_session returned True.
CookieSessionOk(loaded, valid) == loaded /\ valid

\* _ensure_authenticated_session up to the for loop of the rotation: the cookie
\* path, then get_working_accounts and the test for an empty list.
EnsureAuthenticatedSession(valid) ==
    /\ auth_pc = "ensure"
    /\ auth_hist' = [auth_hist EXCEPT !.cookie_valid = session_file /\ valid]
    /\ IF CookieSessionOk(session_file, valid)
       THEN /\ is_authenticated' = TRUE
            /\ auth_pc' = "browser_check"
            /\ UNCHANGED <<working_accounts, login_idx>>
       ELSE IF get_working_accounts = <<>>
       THEN /\ is_authenticated' = FALSE
            /\ auth_pc' = "browser_check"
            /\ UNCHANGED <<working_accounts, login_idx>>
       ELSE /\ working_accounts' = get_working_accounts
            /\ login_idx' = 1
            /\ auth_pc' = "login"
            /\ UNCHANGED is_authenticated
    /\ UNCHANGED <<accounts, session_file, browser_stops, pl_session_active, session_active>>

LoginOutcomes == {"success", "failure", "raises"}

\* The for loop moves on, or is left.
NextAccount ==
    IF login_idx < Len(working_accounts)
    THEN login_idx' = login_idx + 1 /\ auth_pc' = "login"
    ELSE login_idx' = login_idx /\ auth_pc' = "loop_exit"

\* One iteration of the for loop of _login_with_account_rotation (lines 140-196).
LoginAttempt(outcome) ==
    /\ auth_pc = "login"
    /\ LET account == working_accounts[login_idx] IN
       IF ~account.has_credentials
       THEN /\ NextAccount
            /\ UNCHANGED <<accounts, session_file, is_authenticated, auth_hist>>
       ELSE /\ auth_hist' = [auth_hist EXCEPT
                  !.attempts = Append(@, account.username),
                  !.login_ok = IF outcome = "success" THEN <<account.username>> ELSE @,
                  !.cookies_saved = @ \/ outcome = "success"]
            /\ IF outcome = "success"
               THEN /\ session_file' = TRUE
                    /\ accounts' = mark_account_working(account.username)
                    /\ is_authenticated' = TRUE
                    /\ login_idx' = login_idx
                    /\ auth_pc' = "loop_exit"
               ELSE /\ accounts' = mark_account_failed(account.username)
                    /\ NextAccount
                    /\ UNCHANGED <<session_file, is_authenticated>>
    /\ UNCHANGED <<browser_stops, pl_session_active, session_active, working_accounts>>

\* Lines 198-199, after the for loop: reached when the list is exhausted and also
\* by the break of a successful login.
LoginLoopExit ==
    /\ auth_pc = "loop_exit"
    /\ is_authenticated' = FALSE
    /\ auth_pc' = "browser_check"
    /\ UNCHANGED <<accounts, session_file, browser_stops, pl_session_active, session_active,
                   working_accounts, login_idx, auth_hist>>

\* start_browser lines 94-96 and what follows in the two start_session methods.
\* Not authenticated: stop_browser, AuthenticationError; TikTokProfileLoader's
\* except calls cleanup_session (stop_browser again), the orchestrator's except calls
\* its cleanup_session, and the error reaches the caller.
\* Authenticated: the handlers are registered and both session_active flags are set.
StartBrowserCheck ==
    /\ auth_pc = "browser_check"
    /\ IF ~is_authenticated
       THEN /\ is_running' = FALSE
            /\ browser_stops' = browser_stops + 2
            /\ pl_session_active' = FALSE
            /\ session_active' = FALSE
            /\ auth_hist' = [auth_hist EXCEPT !.auth_error = TRUE]
            /\ auth_pc' = "failed"
       ELSE /\ pl_session_active' = TRUE
            /\ session_active' = TRUE
            /\ auth_pc' = "active"
            /\ UNCHANGED <<is_running, browser_stops, auth_hist>>
    /\ UNCHANGED <<accounts, session_file, is_authenticated, working_accounts, login_idx>>

\* run_full_workflow lines 556-557: RuntimeError unless session_active; otherwise
\* the phases run.
RunFullWorkflow ==
    /\ auth_pc \in {"idle", "active", "failed", "ended"}
    /\ IF session_active
       THEN auth_hist' = [auth_hist EXCEPT !.work_started = TRUE]
       ELSE UNCHANGED auth_hist
    /\ UNCHANGED <<is_running, accounts, session_file, is_authenticated, browser_stops,
                   pl_session_active, session_active, auth_pc, working_accounts, login_idx>>

\* UnifiedTikTokScraper.end_session -> cleanup_session -> profile_loader.end_session
\* -> cleanup_session -> stop_browser.
EndSession ==
    /\ auth_pc \in {"idle", "active", "failed", "ended"}
    /\ IF session_active
       THEN /\ session_active' = FALSE
            /\ IF pl_session_active
               THEN /\ pl_session_active' = FALSE
                    /\ is_running' = FALSE
                    /\ browser_stops' = browser_stops + 1
               ELSE UNCHANGED <<pl_session_active, is_running, browser_stops>>
            /\ auth_pc' = "ended"
       ELSE UNCHANGED <<session_active, pl_session_active, is_running, browser_stops, auth_pc>>
    /\ UNCHANGED <<accounts, session_file, is_authenticated, working_accounts, login_idx,
                   auth_hist>>

----------------------------------------------------------------------------
\* The accounts file over the sessions of several processes.

\* An accounts file as it is set up: no account has failed yet.
NewAccountFiles ==
    {a \in AccountFiles : \A k \in DOMAIN a : a[k].isWorking /\ a[k].lastFailure = "none"}

\* Time passes: the lastFailure of an account is no longer within cooldown_period
\* of datetime.now() (get_working_accounts, line 76).
CooldownElapses(k) ==
    /\ k \in DOMAIN accounts
    /\ accounts[k].lastFailure = "recent"
    /\ accounts' = [accounts EXCEPT ![k].lastFailure = "old"]
    /\ UNCHANGED <<is_running, session_file, is_authenticated, browser_stops, pl_session_active,
                   session_active, auth_pc, working_accounts, login_idx, auth_hist>>

\* The next process: new objects (CDPXHRMonitor.__init__, is_running at line 65),
\* the accounts file and the cookie file as the earlier processes left them.
NextProcessStarts ==
    /\ auth_pc \in {"failed", "ended"}
    /\ is_running' = TRUE
    /\ is_authenticated' = FALSE
    /\ browser_stops' = 0
    /\ pl_session_active' = FALSE
    /\ session_active' = FALSE
    /\ auth_pc' = "idle"
    /\ working_accounts' = <<>>
    /\ login_idx' = 0
    /\ auth_hist' = NoAuthHist
    /\ UNCHANGED <<accounts, session_file>>

----------------------------------------------------------------------------
\* SessionState (src/src/scrapers/DTOs/unified_schemas.py). The clock counts ticks
\* of 1/TicksPerSecond seconds from session_start_time.

\* The grace period should_continue uses (line 156).
GraceSeconds == 60

\* The values of UnifiedScraperConfig.grace_period_seconds tried.
GraceConfigs == {30, 60}

Max(a, b) == IF a >= b THEN a ELSE b

\* int(x) of a float x = num / den: truncation towards zero.
IntTrunc(num, den) == IF num >= 0 THEN num \div den ELSE -((-num) \div den)

\* time_remaining: max(0, int(session_duration_limit - elapsed)), in seconds.
time_remaining ==
    Max(0, IntTrunc(session_duration_limit * TicksPerSecond - now, TicksPerSecond))

\* What should_continue returns (lines 146-165).
ShouldContinueResult ==
    IF should_stop THEN FALSE
    ELSE IF grace_period_start # {}
         THEN \A g \in grace_period_start : now - g < GraceSeconds * TicksPerSecond
         ELSE TRUE

\* What should_continue leaves in grace_period_start: set when the time is up and no
\* grace period has begun.
GraceStartAfterCall ==
    IF ~should_stop /\ grace_period_start = {} /\ time_remaining <= 0
    THEN {now}
    ELSE grace_period_start

\* _initialize_session_state: duration_seconds = session_duration_minutes * 60
InitBudget ==
    /\ now = 0
    /\ session_duration_limit \in {m * 60 : m \in 1..MaxSessionMinutes}
    /\ grace_period_seconds \in GraceConfigs
    /\ grace_period_start = {}
    /\ should_stop = FALSE
    /\ ret = <<>>

BudgetIdle ==
    /\ now = 0
    /\ session_duration_limit = 60
    /\ grace_period_seconds = GraceSeconds
    /\ grace_period_start = {}
    /\ should_stop = FALSE
    /\ ret = <<>>

ClockRuns == now < (session_duration_limit + HorizonSeconds) * TicksPerSecond

\* Time passes: one tick.
Tick ==
    /\ ClockRuns
    /\ now' = now + 1
    /\ UNCHANGED <<session_duration_limit, grace_period_seconds, grace_period_start,
                   should_stop, ret>>

\* A call of SessionState.should_continue.
ShouldContinue ==
    /\ ret' = <<ShouldContinueResult>>
    /\ grace_period_start' = GraceStartAfterCall
    /\ UNCHANGED <<now, session_duration_limit, grace_period_seconds, should_stop>>

----------------------------------------------------------------------------
\* UnifiedTikTokScraper.run_full_workflow, fresh scrape
\* (src/src/scrapers/scraper_parts/unified_scraper.py)

\* How long a unit of work (a hashtag search, a profile load, a comment batch)
\* takes, in seconds.
UnitSeconds == {30, 70, 130}

FlowIdle ==
    /\ flow_pc = "idle"
    /\ flow_idx = 0
    /\ hashtags = 1
    /\ profiles_data = 0
    /\ posts_by_profile = 0
    /\ checkpoints = 0
    /\ fresh_check = FALSE
    /\ units = {}

InitFlow ==
    /\ flow_pc = "idle"
    /\ flow_idx = 0
    /\ hashtags \in 1..MaxHashtags
    /\ profiles_data = 0
    /\ posts_by_profile = 0
    /\ checkpoints = 0
    /\ fresh_check = FALSE
    /\ units = {}

\* The session after a start-up through the cookie path.
AuthActive ==
    /\ accounts = <<>>
    /\ session_file = TRUE
    /\ is_authenticated = TRUE
    /\ browser_stops = 0
    /\ pl_session_active = TRUE
    /\ session_active = TRUE
    /\ auth_pc = "active"
    /\ working_accounts = <<>>
    /\ login_idx = 0
    /\ auth_hist = [NoAuthHist EXCEPT !.cookie_valid = TRUE]

\* _check_time_and_save_if_needed followed by a jump: to `pass` when
\* should_continue returns True, else _save_current_state and to `stop`.
CheckTimeAndSave(pass, stop) ==
    /\ ret' = <<ShouldContinueResult>>
    /\ grace_period_start' = GraceStartAfterCall
    /\ IF ShouldContinueResult
       THEN /\ flow_pc' = pass
            /\ fresh_check' = TRUE
            /\ UNCHANGED checkpoints
       ELSE /\ flow_pc' = stop
            /\ fresh_check' = FALSE
            /\ checkpoints' = checkpoints + 1
    /\ UNCHANGED <<session_duration_limit, grace_period_seconds, should_stop>>

\* A unit of work of the given kind starts and takes d seconds.
StartUnit(kind, d) ==
    /\ units' = units \cup
          {[kind |-> kind, checked |-> fresh_check, started_at |-> now,
            after_stop |-> checkpoints > 0]}
    /\ fresh_check' = FALSE
    /\ now' = now + d * TicksPerSecond

\* Lines 556-557 and 578-582: RuntimeError unless session_active, else
\* _initialize_session_state.
FlowStart ==
    /\ flow_pc = "idle"
    /\ flow_pc' = IF session_active THEN "search_check" ELSE "error"
    /\ UNCHANGED <<flow_idx, hashtags, profiles_data, posts_by_profile, checkpoints,
                   fresh_check, units, budgetVars>>

\* Lines 594-596: the check before the search phase.
SearchPhaseCheck ==
    /\ flow_pc = "search_check"
    /\ CheckTimeAndSave("search_all", "returned")
    /\ UNCHANGED <<flow_idx, hashtags, profiles_data, posts_by_profile, units, now>>

\* Line 731, search_all_hashtags: one search_hashtag per hashtag, one after the
\* other; after the last the loop over the results begins.
SearchHashtag(d) ==
    /\ flow_pc = "search_all"
    /\ flow_idx < hashtags
    /\ StartUnit("hashtag_search", d)
    /\ IF flow_idx + 1 = hashtags
       THEN flow_pc' = "search_results" /\ flow_idx' = 0
       ELSE flow_pc' = "search_all" /\ flow_idx' = flow_idx + 1
    /\ UNCHANGED <<hashtags, profiles_data, posts_by_profile, checkpoints,
                   session_duration_limit, grace_period_seconds, grace_period_start,
                   should_stop, ret>>

\* Lines 734-737: the check at the head of the loop over the search results; on
\* failure the phase returns to run_full_workflow.
SearchResultsCheck ==
    /\ flow_pc = "search_results"
    /\ CheckTimeAndSave("process_results", "profiles_check")
    /\ UNCHANGED <<flow_idx, hashtags, profiles_data, posts_by_profile, units, now>>

\* Lines 739-770: the results of one hashtag are stored; `found` says whether they
\* hold a profile not stored before.
ProcessResults(found) ==
    /\ flow_pc = "process_results"
    /\ profiles_data' = profiles_data + (IF found THEN 1 ELSE 0)
    /\ IF flow_idx + 1 = hashtags
       THEN flow_pc' = "profiles_check" /\ flow_idx' = 0
       ELSE flow_pc' = "search_results" /\ flow_idx' = flow_idx + 1
    /\ UNCHANGED <<hashtags, posts_by_profile, checkpoints, fresh_check, units, budgetVars>>

\* Lines 599-601 and 790-792: the check before the profiles phase, which returns
\* at once when no profile is stored.
ProfilesPhaseCheck ==
    /\ flow_pc = "profiles_check"
    /\ CheckTimeAndSave(IF profiles_data = 0 THEN "comments_check" ELSE "profiles_loop",
                        "returned")
    /\ flow_idx' = 0
    /\ UNCHANGED <<hashtags, profiles_data, posts_by_profile, units, now>>

\* Lines 813-816: the check before each profile load.
ProfilesLoopCheck ==
    /\ flow_pc = "profiles_loop"
    /\ CheckTimeAndSave("profile_load", "comments_check")
    /\ UNCHANGED <<flow_idx, hashtags, profiles_data, posts_by_profile, units, now>>

\* Lines 824-857: load_profile_posts of one profile; `posts` says whether any post
\* was loaded (no post and an exception both record posts_count 0).
LoadProfilePosts(d, posts) ==
    /\ flow_pc = "profile_load"
    /\ StartUnit("profile_load", d)
    /\ posts_by_profile' = posts_by_profile + (IF posts THEN 1 ELSE 0)
    /\ IF flow_idx + 1 = profiles_data
       THEN flow_pc' = "comments_check" /\ flow_idx' = 0
       ELSE flow_pc' = "profiles_loop" /\ flow_idx' = flow_idx + 1
    /\ UNCHANGED <<hashtags, profiles_data, checkpoints,
                   session_duration_limit, grace_period_seconds, grace_period_start,
                   should_stop, ret>>

\* Lines 604-606 and 866-868: the check before the comments phase, which returns
\* at once when no post is stored.
CommentsPhaseCheck ==
    /\ flow_pc = "comments_check"
    /\ CheckTimeAndSave(IF posts_by_profile = 0 THEN "completed" ELSE "comments_loop",
                        "returned")
    /\ flow_idx' = 0
    /\ UNCHANGED <<hashtags, profiles_data, posts_by_profile, units, now>>

\* Lines 898-901: the check before each profile's comment batch; on failure the
\* phase returns and run_full_workflow ends.
CommentsLoopCheck ==
    /\ flow_pc = "comments_loop"
    /\ CheckTimeAndSave("comment_batch", "completed")
    /\ UNCHANGED <<flow_idx, hashtags, profiles_data, posts_by_profile, units, now>>

\* Lines 911-930: load_all_comments for the posts of one profile.
LoadAllComments(d) ==
    /\ flow_pc = "comment_batch"
    /\ StartUnit("comment_batch", d)
    /\ IF flow_idx + 1 = posts_by_profile
       THEN flow_pc' = "completed" /\ flow_idx' = 0
       ELSE flow_pc' = "comments_loop" /\ flow_idx' = flow_idx + 1
    /\ UNCHANGED <<hashtags, profiles_data, posts_by_profile, checkpoints,
                   session_duration_limit, grace_period_seconds, grace_period_start,
                   should_stop, ret>>

----------------------------------------------------------------------------
\* UnifiedTikTokScraper._determine_resume_point
\* (src/src/scrapers/scraper_parts/unified_scraper.py lines 296-331)

HashtagNames == 1..MaxHashtags
UserIds == 1..MaxSavedProfiles
PostIds == 1..MaxSavedPosts

Range(seq) == {seq[i] : i \in DOMAIN seq}

SeqsUpTo(S, n) == UNION {[1..k -> S] : k \in 0..n}

\* Keys of a dictionary are unique.
UniqueUsers(ps) == \A i, j \in DOMAIN ps : ps[i].user_id = ps[j].user_id => i = j
UniquePosts(xs) == \A i, j \in DOMAIN xs : xs[i].post_id = xs[j].post_id => i = j

\* An entry of profiles_data: the 'posts_count' key may be missing.
ProfileEntries ==
    [user_id : UserIds, has_posts_count : {FALSE}, posts_count : {0}] \cup
    [user_id : UserIds, has_posts_count : {TRUE}, posts_count : {0, 1}]

\* A post of posts_data with its entry in post_to_comments, which may be missing.
PostEntries ==
    [post_id : PostIds, in_post_to_comments : {FALSE}, comments : {0}] \cup
    [post_id : PostIds, in_post_to_comments : {TRUE}, comments : {0, 1}]

\* The dictionaries in insertion order: keys are unique.
SavedStates ==
    [original_hashtags : SeqsUpTo(HashtagNames, MaxHashtags),
     hashtags_data : SUBSET HashtagNames,
     profiles_data : {ps \in SeqsUpTo(ProfileEntries, MaxSavedProfiles) : UniqueUsers(ps)},
     posts_data : {xs \in SeqsUpTo(PostEntries, MaxSavedPosts) : UniquePosts(xs)}]

EmptySavedState ==
    [original_hashtags |-> <<>>, hashtags_data |-> {}, profiles_data |-> <<>>,
     posts_data |-> <<>>]

\* Lines 300-303
HashtagPending(h) == h \notin saved_state.hashtags_data
hashtags_to_process == SelectSeq(saved_state.original_hashtags, HashtagPending)

\* Line 311: 'posts_count' not in profile_data or profile_data.get('posts_count', 0) == 0
NeedsPosts(e) == ~e.has_posts_count \/ e.posts_count = 0

\* Lines 309-313
profiles_needing_posts ==
    LET needing == SelectSeq(saved_state.profiles_data, NeedsPosts)
    IN  [i \in DOMAIN needing |-> needing[i].user_id]

\* Line 322: post_id not in post_to_comments or len(post_to_comments[post_id]) == 0
NeedsComments(e) == ~e.in_post_to_comments \/ e.comments = 0

\* Lines 320-323
posts_needing_comments ==
    LET needing == SelectSeq(saved_state.posts_data, NeedsComments)
    IN  [i \in DOMAIN needing |-> needing[i].post_id]

\* The value returned: (phase, items_to_process, start_index).
DetermineResumePointResult ==
    IF hashtags_to_process # <<>>
    THEN [phase |-> "search", items |-> hashtags_to_process, start_index |-> 0]
    ELSE IF profiles_needing_posts # <<>>
    THEN [phase |-> "profiles", items |-> profiles_needing_posts, start_index |-> 0]
    ELSE IF posts_needing_comments # <<>>
    THEN [phase |-> "comments", items |-> posts_needing_comments, start_index |-> 0]
    ELSE [phase |-> "complete", items |-> <<>>, start_index |-> 0]

ResumeIdle ==
    /\ saved_state = EmptySavedState
    /\ resume_point = <<>>

InitResume ==
    /\ saved_state \in SavedStates
    /\ resume_point = <<>>

\* A call of _determine_resume_point(original_hashtags).
DetermineResumePoint ==
    /\ resume_point = <<>>
    /\ resume_point' = <<DetermineResumePointResult>>
    /\ UNCHANGED saved_state

----------------------------------------------------------------------------
\* The data of UnifiedTikTokScraper (unified_scraper.py lines 45-63): dictionaries
\* are functions whose domain is the set of keys.

CommentIds == 1..MaxComments

\* Hashtags are strings, here sequences of characters.
HashtagInputs == {<<"t">>, <<"#", "t">>, <<"f", " ">>}

None == "None"

\* d[k] = v
Put(d, k, v) == [x \in DOMAIN d \cup {k} |-> IF x = k THEN v ELSE d[x]]

\* if k not in d: d[k] = set(); d[k].add(v)
AddTo(d, k, v) == Put(d, k, (IF k \in DOMAIN d THEN d[k] ELSE {}) \cup {v})

EmptyDict == [x \in {} |-> {}]

\* __init__, lines 45-63
EmptyOrch ==
    [hashtags_data |-> EmptyDict, profiles_data |-> EmptyDict, posts_data |-> {},
     comments_data |-> {},
     hashtag_to_profiles |-> EmptyDict, profile_to_hashtags |-> EmptyDict,
     profile_to_posts |-> EmptyDict, post_to_profile |-> EmptyDict,
     post_to_comments |-> EmptyDict, comment_to_post |-> EmptyDict,
     comment_to_profile |-> EmptyDict,
     failed_hashtags |-> <<>>, failed_profiles |-> <<>>, failed_posts |-> <<>>]

\* _add_relationships, lines 512-520: hashtag and profile
AddHashtagProfile(o, hashtag, user_id) ==
    [o EXCEPT !.hashtag_to_profiles = AddTo(o.hashtag_to_profiles, hashtag, user_id),
              !.profile_to_hashtags = AddTo(o.profile_to_hashtags, user_id, hashtag)]

\* _add_relationships, lines 523-531: profile and post
AddProfilePost(o, user_id, post_id) ==
    [o EXCEPT !.profile_to_posts = AddTo(o.profile_to_posts, user_id, post_id),
              !.post_to_profile = Put(o.post_to_profile, post_id, user_id)]

\* _add_relationships, lines 534-547: post and comment; the comment is linked to
\* the owner of the post when the post has one.
AddPostComment(o, post_id, cid) ==
    [o EXCEPT !.post_to_comments = AddTo(o.post_to_comments, post_id, cid),
              !.comment_to_post = Put(o.comment_to_post, cid, post_id),
              !.comment_to_profile =
                  IF post_id \in DOMAIN o.post_to_profile
                  THEN Put(o.comment_to_profile, cid, o.post_to_profile[post_id])
                  ELSE o.comment_to_profile]

\* An entry of profiles_data: the dictionary built by the search phase (`dict`
\* TRUE), or the AuthorProfile object itself as run_from_profiles and
\* run_from_posts store it. search_timestamp is the time of the turn of the
\* search loop that built the dictionary, named by the hashtag of the turn; <<>>
\* stands for the scrape_timestamp of a checkpoint and for no timestamp.
ProfileDict ==
    [dict |-> TRUE, has_posts_count |-> FALSE, posts_count |-> 0, search_timestamp |-> <<>>]
ProfileObject ==
    [dict |-> FALSE, has_posts_count |-> FALSE, posts_count |-> 0, search_timestamp |-> <<>>]

\* Lines 754-759: the dictionary stored for a profile found under the hashtag.
FoundProfile(hashtag) == [ProfileDict EXCEPT !.search_timestamp = hashtag]

\* Lines 752-762: each profile found for the hashtag is stored (an entry already
\* there is replaced) and linked to the hashtag.
RECURSIVE StoreFoundProfiles(_, _, _, _)
StoreFoundProfiles(o, hashtag, found, i) ==
    IF i > Len(found) THEN o
    ELSE StoreFoundProfiles(
             AddHashtagProfile([o EXCEPT !.profiles_data =
                                   Put(o.profiles_data, found[i], FoundProfile(hashtag))],
                               hashtag, found[i]),
             hashtag, found, i + 1)

\* Lines 743-768: the results of one hashtag; a hashtag without profiles goes to
\* failed_hashtags.
StoreHashtagResults(o, hashtag, found) ==
    LET o1 == [o EXCEPT !.hashtags_data = Put(o.hashtags_data, hashtag, Len(found))]
    IN  IF found # <<>>
        THEN StoreFoundProfiles(o1, hashtag, found, 1)
        ELSE [o1 EXCEPT !.failed_hashtags = Append(o1.failed_hashtags, hashtag)]

\* Lines 835-837: each post is stored and linked to the profile.
RECURSIVE StorePosts(_, _, _, _)
StorePosts(o, user_id, posts, i) ==
    IF i > Len(posts) THEN o
    ELSE StorePosts(AddProfilePost([o EXCEPT !.posts_data = o.posts_data \cup {posts[i]}],
                                   user_id, posts[i]),
                    user_id, posts, i + 1)

\* profiles_data[user_id].update({'posts_count': n, ...})
WithPostsCount(o, user_id, n) ==
    [o EXCEPT !.profiles_data =
        Put(o.profiles_data, user_id,
            [o.profiles_data[user_id] EXCEPT !.has_posts_count = TRUE, !.posts_count = n])]

\* Mutant of StoreProfilePosts: a profile without posts is not recorded as failed.
StoreProfilePostsUnrecorded(o, user_id, posts) ==
    IF posts # <<>>
    THEN StorePosts(WithPostsCount(o, user_id, Len(posts)), user_id, posts, 1)
    ELSE WithPostsCount(o, user_id, 0)

\* Lines 829-857: what load_profile_posts returned for one profile; no post, or an
\* exception, records posts_count 0 and the profile in failed_profiles.
StoreProfilePosts(o, user_id, posts) ==
    IF posts # <<>>
    THEN StorePosts(WithPostsCount(o, user_id, Len(posts)), user_id, posts, 1)
    ELSE [WithPostsCount(o, user_id, 0) EXCEPT !.failed_profiles = Append(@, user_id)]

\* Lines 918-920: the comments of one post.
RECURSIVE StorePostComments(_, _, _, _)
StorePostComments(o, post_id, comments, i) ==
    IF i > Len(comments) THEN o
    ELSE StorePostComments(
             AddPostComment([o EXCEPT !.comments_data = o.comments_data \cup {comments[i]}],
                            post_id, comments[i]),
             post_id, comments, i + 1)

\* Lines 914-922: comments_results, a dictionary post_id -> comments given here as
\* its items in order; posts not in posts_data are passed over.
RECURSIVE StoreComments(_, _, _)
StoreComments(o, results, i) ==
    IF i > Len(results) THEN o
    ELSE StoreComments(
             IF results[i].post_id \in o.posts_data
             THEN StorePostComments(o, results[i].post_id, results[i].comments, 1)
             ELSE o,
             results, i + 1)

\* run_from_posts lines 704-708: every profile of profile_mapping is stored and
\* linked to the post.
RECURSIVE LinkPostToProfiles(_, _, _, _)
LinkPostToProfiles(o, post_id, mapping, j) ==
    IF j > Len(mapping) THEN o
    ELSE LinkPostToProfiles(
             AddProfilePost([o EXCEPT !.profiles_data = Put(o.profiles_data, mapping[j], ProfileObject)],
                            mapping[j], post_id),
             post_id, mapping, j + 1)

\* run_from_posts lines 700-708: the posts are stored; profile_mapping is given as
\* the user ids of its items in order (<<>> for None or empty).
RECURSIVE SetUpPosts(_, _, _, _)
SetUpPosts(o, posts, mapping, i) ==
    IF i > Len(posts) THEN o
    ELSE SetUpPosts(
             LinkPostToProfiles([o EXCEPT !.posts_data = o.posts_data \cup {posts[i]}],
                                posts[i], mapping, 1),
             posts, mapping, i + 1)

\* run_from_profiles lines 657-664: the profiles are stored; `tagged` is the
\* hashtag hashtag_mapping gives to every profile (<<>> for none).
RECURSIVE SetUpProfiles(_, _, _, _)
SetUpProfiles(o, profiles, tagged, i) ==
    IF i > Len(profiles) THEN o
    ELSE LET o1 == [o EXCEPT !.profiles_data = Put(o.profiles_data, profiles[i], ProfileObject)]
         IN  SetUpProfiles(
                 IF tagged # <<>> THEN AddHashtagProfile(o1, tagged[1], profiles[i]) ELSE o1,
                 profiles, tagged, i + 1)

\* Checkpoints (unified_scraper.py lines 108-294 and 1048-1078)

\* _cleanup_old_saved_files(keep_count = 3), line 274
keep_count == 3

\* list(s) of a set s: its elements once each, in some order.
ListsOf(S) == {l \in [1..Cardinality(S) -> S] : Range(l) = S}

\* {k: list(v) for k, v in d.items()}: every way of listing the sets.
DictsOfLists(d) ==
    {f \in [DOMAIN d -> UNION {ListsOf(d[k]) : k \in DOMAIN d}] :
        \A k \in DOMAIN d : f[k] \in ListsOf(d[k])}

\* {k: set(v) for k, v in d.items()}
DictOfSets(d) == [k \in DOMAIN d |-> Range(d[k])]

\* get_complete_results raises TypeError when an entry of profiles_data is not a
\* dictionary (profile['profile'] at line 1060).
CanSerialize(o) == \A u \in DOMAIN o.profiles_data : o.profiles_data[u].dict

\* Mutant of DataOf: the comments are left out.
DataOfWithoutComments(o) ==
    [hashtags |-> o.hashtags_data, profiles |-> DOMAIN o.profiles_data,
     posts |-> o.posts_data, comments |-> {}]

\* get_complete_results, 'data' (lines 1058-1063): the profile, post and comment
\* objects by id.
DataOf(o) ==
    [hashtags |-> o.hashtags_data, profiles |-> DOMAIN o.profiles_data,
     posts |-> o.posts_data, comments |-> o.comments_data]

\* get_complete_results, 'relationships' (lines 1064-1072), one for every way of
\* listing the sets.
RelationshipsOf(o) ==
    {[hashtag_to_profiles |-> hp, profile_to_hashtags |-> ph, profile_to_posts |-> pp,
      post_to_profile |-> o.post_to_profile, post_to_comments |-> pc,
      comment_to_post |-> o.comment_to_post, comment_to_profile |-> o.comment_to_profile] :
        hp \in DictsOfLists(o.hashtag_to_profiles), ph \in DictsOfLists(o.profile_to_hashtags),
        pp \in DictsOfLists(o.profile_to_posts), pc \in DictsOfLists(o.post_to_comments)}

\* The files _save_current_state may write for the orchestrator data o; `origin`
\* is history: the data the file was written from.
CheckpointsOf(o) ==
    {[data |-> DataOf(o), relationships |-> r,
      errors |-> [failed_hashtags |-> o.failed_hashtags,
                  failed_profiles |-> o.failed_profiles,
                  failed_posts |-> o.failed_posts],
      origin |-> o] : r \in RelationshipsOf(o)}

\* _restore_from_saved_data (lines 156-232) on a fresh orchestrator: profiles come
\* back as dictionaries without posts_count, the failed lists are not restored.
RestoreFromSavedData(f) ==
    [EmptyOrch EXCEPT
        !.hashtags_data = f.data.hashtags,
        !.profiles_data = [u \in f.data.profiles |-> ProfileDict],
        !.posts_data = f.data.posts,
        !.comments_data = f.data.comments,
        !.hashtag_to_profiles = DictOfSets(f.relationships.hashtag_to_profiles),
        !.profile_to_hashtags = DictOfSets(f.relationships.profile_to_hashtags),
        !.profile_to_posts = DictOfSets(f.relationships.profile_to_posts),
        !.post_to_profile = f.relationships.post_to_profile,
        !.post_to_comments = DictOfSets(f.relationships.post_to_comments),
        !.comment_to_post = f.relationships.comment_to_post,
        !.comment_to_profile = f.relationships.comment_to_profile]

\* The files after _save_current_state wrote f: newest first, keep_count kept.
WithNewFile(files, f) == SubSeq(<<f>> \o files, 1, IF Len(files) + 1 > keep_count THEN keep_count ELSE Len(files) + 1)

\* _save_current_state (lines 234-272): an exception is printed, no file written.
SaveCurrentState ==
    /\ Len(saved_files) < MaxSaves
    /\ \E f \in CheckpointsOf(orch) :
          saved_files' = IF CanSerialize(orch) THEN WithNewFile(saved_files, f) ELSE saved_files
    /\ UNCHANGED <<orch, restored, ops>>

\* _load_saved_state of a fresh orchestrator (lines 122-154).
LoadSavedState(check_for_saved_data) ==
    /\ restored' = IF check_for_saved_data /\ saved_files # <<>>
                   THEN <<[state |-> RestoreFromSavedData(saved_files[1]),
                            origin |-> saved_files[1].origin]>>
                   ELSE restored
    /\ UNCHANGED <<orch, saved_files, ops>>

\* The orchestrator's operations on its data, each with what the scrapers gave it.

\* Lists without repetition of at most n elements of S.
DistinctSeqs(S, n) == {l \in SeqsUpTo(S, n) : \A i, j \in DOMAIN l : l[i] = l[j] => i = j}

GraphIdle ==
    /\ orch = EmptyOrch
    /\ saved_files = <<>>
    /\ restored = <<>>
    /\ ops = 0

GraphOp(o) ==
    /\ ops < MaxOps
    /\ ops' = ops + 1
    /\ orch' = o
    /\ UNCHANGED <<saved_files, restored>>

\* _run_search_phase_with_timing, one turn of the loop (lines 739-768).
SearchResultsStored(hashtag, found) == GraphOp(StoreHashtagResults(orch, hashtag, found))

\* Lines 800-803: the phase reads every entry of profiles_data as a dictionary
\* (TypeError otherwise) and takes the profiles without posts.
ProfilesToProcess(o) ==
    {u \in DOMAIN o.profiles_data :
        ~o.profiles_data[u].has_posts_count \/ o.profiles_data[u].posts_count = 0}

\* _run_profiles_phase_with_timing, one turn of the loop (lines 818-857).
ProfilePostsStored(user_id, posts) ==
    /\ CanSerialize(orch)
    /\ user_id \in ProfilesToProcess(orch)
    /\ GraphOp(StoreProfilePosts(orch, user_id, posts))

\* Lines 875-895: the owners of the posts without comments.
PostsNeedingComments(o) ==
    {p \in o.posts_data : p \notin DOMAIN o.post_to_comments \/ o.post_to_comments[p] = {}}

ProfilesWithPostsNeedingComments(o) ==
    {o.post_to_profile[p] : p \in PostsNeedingComments(o) \cap DOMAIN o.post_to_profile}

\* _run_comments_phase_with_timing, one turn of the loop (lines 903-922).
CommentsStored(user_id, results) ==
    /\ user_id \in ProfilesWithPostsNeedingComments(orch) \cap DOMAIN orch.profiles_data
    /\ orch.profiles_data[user_id].dict
    /\ GraphOp(StoreComments(orch, results, 1))

\* run_from_posts up to the comments phase (lines 698-708).
RunFromPostsSetUp(posts, mapping) == GraphOp(SetUpPosts(orch, posts, mapping, 1))

\* run_from_profiles up to the profiles phase (lines 655-664).
RunFromProfilesSetUp(profiles, tagged) == GraphOp(SetUpProfiles(orch, profiles, tagged, 1))

\* What load_all_comments may return for one post: its comments, at least one.
CommentResults ==
    {<<[post_id |-> p, comments |-> c]>> :
        p \in PostIds, c \in DistinctSeqs(CommentIds, MaxComments) \ {<<>>}}

----------------------------------------------------------------------------
\* _load_saved_state on a file that cannot be restored (unified_scraper.py lines
\* 124-232). A file of the directory is a checkpoint the program wrote, as it was
\* written or changed since: no longer JSON, or with a record of its profiles,
\* posts or comments that lacks a field _restore_from_saved_data reads with
\* [...] (user_id, username, display_name; post_id; cid).

\* Where the restore of the file stops.
Damages == {"none", "unreadable", "profiles", "posts", "comments"}

\* What the run of an earlier process stored before it wrote the file.
EarlierOrchs ==
    LET searched == {StoreHashtagResults(EmptyOrch, <<"#", "t">>, found) :
                        found \in DistinctSeqs(UserIds, MaxSavedProfiles)}
        loaded == UNION {{StoreProfilePosts(o, u, posts) :
                            u \in DOMAIN o.profiles_data,
                            posts \in DistinctSeqs(PostIds, MaxSavedPosts)} : o \in searched}
        commented == UNION {{StoreComments(o, results, 1) : results \in CommentResults} :
                               o \in loaded}
    IN  searched \cup loaded \cup commented

\* The records of the damaged part of the file f.
PartOf(f, damage) ==
    CASE damage = "profiles" -> f.data.profiles
      [] damage = "posts" -> f.data.posts
      [] damage = "comments" -> f.data.comments
      [] OTHER -> {}

\* The files the directory may hold: `damage` says where the restore stops and
\* `rebuilt` which records of that part come before the one that lacks a field.
FilesOnDisk ==
    UNION {UNION {{[data |-> f.data, relationships |-> f.relationships, errors |-> f.errors,
                    origin |-> f.origin, damage |-> d, rebuilt |-> before] :
                      before \in IF d \in {"none", "unreadable"} THEN {{}}
                                ELSE SUBSET PartOf(f, d) \ {PartOf(f, d)}} :
                  d \in {d \in Damages : d \in {"none", "unreadable"} \/ PartOf(f, d) # {}}} :
           f \in UNION {CheckpointsOf(o) : o \in EarlierOrchs}}

\* _restore_from_saved_data (lines 156-232) up to the exception: hashtags_data is
\* assigned first (line 165), the records are put into the maps one by one (lines
\* 183, 197, 210), the relationships come last (lines 213-223).
RestoreUpToDamage(o, f) ==
    LET withHashtags == [o EXCEPT !.hashtags_data = f.data.hashtags]
        Profiles(S) == [u \in DOMAIN o.profiles_data \cup S |->
                           IF u \in S THEN ProfileDict ELSE o.profiles_data[u]]
    IN  CASE f.damage = "unreadable" -> o
          [] f.damage = "profiles" ->
                [withHashtags EXCEPT !.profiles_data = Profiles(f.rebuilt)]
          [] f.damage = "posts" ->
                [withHashtags EXCEPT !.profiles_data = Profiles(f.data.profiles),
                                     !.posts_data = @ \cup f.rebuilt]
          [] f.damage = "comments" ->
                [withHashtags EXCEPT !.profiles_data = Profiles(f.data.profiles),
                                     !.posts_data = @ \cup f.data.posts,
                                     !.comments_data = @ \cup f.rebuilt]
          [] OTHER -> RestoreFromSavedData(f)

InitLoad ==
    /\ orch = EmptyOrch
    /\ saved_files \in {<<f>> : f \in FilesOnDisk}
    /\ restored = <<>>
    /\ ops = 0

\* _load_saved_state (lines 124-154), the first thing run_full_workflow does:
\* True with the maps restored, or False when an exception was caught.
LoadSavedStateOfProcess ==
    /\ ops = 0
    /\ ops' = 1
    /\ orch' = RestoreUpToDamage(orch, saved_files[1])
    /\ restored' = IF saved_files[1].damage = "none"
                   THEN <<[state |-> orch', origin |-> saved_files[1].origin]>>
                   ELSE <<>>
    /\ UNCHANGED saved_files

\* run_full_workflow lines 574-579 and the search phase: after False the run is a
\* fresh scrape of the hashtags it was given.
FreshScrapeAfterLoad(hashtag, found) ==
    /\ ops >= 1
    /\ restored = <<>>
    /\ SearchResultsStored(hashtag, found)

\* _load_saved_state has returned False.
LoadReturnedFalse == ops = 1 /\ restored = <<>>

\* C38 (as claimed): when _load_saved_state returns False, the entity maps and the
\* relationship maps of the orchestrator are as they were before the call.
C38_LoadIsAllOrNothing == LoadReturnedFalse => orch = EmptyOrch

----------------------------------------------------------------------------
\* The size classes of CDPXHRMonitor: what a retrieval gets for a large and for a
\* small response. Delays are in tenths of a second, timeouts in seconds.

\* self.body_retrieval_delay = 1.0, and the literal 0.2 of on_loading_finished
body_retrieval_delay == 10
small_response_delay == 2

\* The cap of min(timeout * 2, 30)
large_timeout_cap == 30

\* The values of the timeout parameter of CDPXHRMonitor.__init__: the default 10,
\* the 30 of the profile and the comments loader, and every value in between.
Timeouts == 1..MaxTimeout

Min(a, b) == IF a <= b THEN a ELSE b

\* on_loading_finished, line 276
InitialDelay(info) == IF info.is_large_response THEN body_retrieval_delay ELSE small_response_delay

\* retrieve_response_body_with_retry, lines 310-312
FetchTimeout(base, info) ==
    IF info.is_large_response THEN Min(base * 2, large_timeout_cap) ELSE base

InitSize ==
    /\ timeout \in Timeouts
    /\ request_info = RequestInfo("r1")
    /\ retrieval = <<>>

\* on_response_received for the tracked request.
SizeResponseReceived(h) ==
    /\ request_info.state = INITIATED
    /\ request_info' = WithContentLength([request_info EXCEPT !.state = RESPONSE_RECEIVED,
                                                              !.has_response_data = TRUE], h)
    /\ UNCHANGED <<timeout, retrieval>>

\* on_loading_finished: the retrieval is scheduled with its initial delay.
SizeLoadingFinished ==
    /\ request_info.state = RESPONSE_RECEIVED
    /\ request_info' = [request_info EXCEPT !.state = LOADING_FINISHED]
    /\ retrieval' = <<[initial_delay |-> InitialDelay(request_info), timeout |-> 0]>>
    /\ UNCHANGED timeout

\* The first attempt of the retrieval: wait_for(..., timeout=timeout).
SizeAttempt ==
    /\ retrieval # <<>>
    /\ retrieval[1].timeout = 0
    /\ retrieval' = <<[retrieval[1] EXCEPT !.timeout = FetchTimeout(timeout, request_info)]>>
    /\ UNCHANGED <<timeout, request_info>>

coreVarsButMonitor == <<authVars, budgetVars, flowVars, resumeVars, graphVars, unitVars, runVars>>

coreVars == <<monVars, coreVarsButMonitor>>

otherSizeVars == <<coreVars, loaderVars, waitVars, verifyVars, filesVars, pageVars>>

----------------------------------------------------------------------------
\* TikTokCommentsLoader.load_all_comments: the loop over the posts of a profile,
\* with _process_post_comments, _navigate_to_post and _close_post, and the page
\* they act on. The page answers as the environment decides.

InitLoader ==
    /\ loader_pc = "find"
    /\ current_post_index = 1
    /\ total_posts_to_process \in 1..MaxLoaderPosts
    /\ open_posts = {}
    /\ loader_hist = NoLoaderHist

\* _navigate_to_post, lines 373-378: _find_video_link_element; without an element
\* the post fails and nothing was clicked.
LoaderFindVideoLink(found) ==
    /\ loader_pc = "find"
    /\ loader_pc' = IF found THEN "click" ELSE "next"
    /\ UNCHANGED <<current_post_index, total_posts_to_process, open_posts, loader_hist>>

\* Lines 380-396: video_element.click() and the wait; a click that raises makes
\* _navigate_to_post return False, and _process_post_comments returns [].
LoaderClick(raises) ==
    /\ loader_pc = "click"
    /\ IF raises
       THEN /\ loader_pc' = "next"
            /\ UNCHANGED <<open_posts, loader_hist>>
       ELSE /\ open_posts' = open_posts \cup {current_post_index}
            /\ loader_hist' = [loader_hist EXCEPT !.clicked = @ \cup {current_post_index},
                                                  !.opened_over = @ \/ open_posts # {}]
            /\ loader_pc' = "wait_section"
    /\ UNCHANGED <<current_post_index, total_posts_to_process>>

\* _process_post_comments, lines 648-652: without the comment section the post is
\* closed and fails.
LoaderWaitForCommentSection(found) ==
    /\ loader_pc = "wait_section"
    /\ loader_pc' = IF found THEN "scroll" ELSE "close"
    /\ UNCHANGED <<current_post_index, total_posts_to_process, open_posts, loader_hist>>

\* Lines 654-690: scrolling and the processing of the responses; the success path
\* and the except branch both go on to _close_post.
LoaderScroll(raises) ==
    /\ loader_pc = "scroll"
    /\ loader_pc' = "close"
    /\ UNCHANGED <<current_post_index, total_posts_to_process, open_posts, loader_hist>>

\* What _close_post can meet: the button clicked, no button, an exception.
ClosePostOutcomes == {"closed", "no_button", "raises"}

\* _close_post, lines 539-562; its result is not looked at by the caller.
LoaderClosePost(outcome) ==
    /\ loader_pc = "close"
    /\ outcome \in ClosePostOutcomes
    /\ open_posts' = IF outcome = "closed" THEN open_posts \ {current_post_index} ELSE open_posts
    /\ loader_hist' = [loader_hist EXCEPT !.close_called = @ \cup {current_post_index}]
    /\ loader_pc' = "next"
    /\ UNCHANGED <<current_post_index, total_posts_to_process>>

\* load_all_comments, lines 714-740: the post is filed, the loop moves on.
LoaderNextPost ==
    /\ loader_pc = "next"
    /\ IF current_post_index < total_posts_to_process
       THEN current_post_index' = current_post_index + 1 /\ loader_pc' = "find"
       ELSE current_post_index' = current_post_index /\ loader_pc' = "done"
    /\ UNCHANGED <<total_posts_to_process, open_posts, loader_hist>>

otherLoaderVars == <<coreVars, sizeVars, waitVars, verifyVars, filesVars, pageVars>>

----------------------------------------------------------------------------
\* TikTokCommentsLoader._wait_for_comment_section: one action per iteration of the
\* while loop, the sleeps counted in seconds.

\* CommentLoadConfig.comment_section_wait_timeout and the local max_retries
comment_section_wait_timeout == 15
max_retries == 3

\* What one iteration can meet: the page object or its URL is not usable, the
\* marker is there or not, or query_selector raises one of three kinds of error.
QueryOutcomes ==
    {"page_invalid", "found", "absent", "invalid_state", "context_destroyed", "other_error"}

InitWait ==
    /\ wait_pc = "loop"
    /\ retry_count = 0
    /\ wait_elapsed \in 0..MaxWaitStart
    /\ wait_hist = NoWaitHist

\* The while test (line 412) and the body (lines 413-459). wait_pc tells how the
\* call returned: "found" is True, every other value is False.
WaitIteration(outcome) ==
    /\ wait_pc = "loop"
    /\ IF wait_elapsed >= comment_section_wait_timeout
       THEN /\ outcome = "absent"
            /\ wait_pc' = "timeout"
            /\ UNCHANGED <<retry_count, wait_elapsed, wait_hist>>
       ELSE CASE outcome = "page_invalid" ->
                   /\ wait_pc' = "page_invalid"
                   /\ UNCHANGED <<retry_count, wait_elapsed, wait_hist>>
              [] outcome = "found" ->
                   /\ wait_pc' = "found"
                   /\ UNCHANGED <<retry_count, wait_elapsed, wait_hist>>
              [] outcome = "absent" ->
                   /\ wait_elapsed' = wait_elapsed + 1
                   /\ UNCHANGED <<wait_pc, retry_count, wait_hist>>
              [] outcome = "invalid_state" ->
                   /\ retry_count' = retry_count + 1
                   /\ wait_hist' = [wait_hist EXCEPT !.invalid_state = @ + 1]
                   /\ IF retry_count + 1 >= max_retries
                      THEN wait_pc' = "invalid_state_retries" /\ UNCHANGED wait_elapsed
                      ELSE wait_elapsed' = wait_elapsed + 2 /\ UNCHANGED wait_pc
              [] outcome = "context_destroyed" ->
                   /\ retry_count' = retry_count + 1
                   /\ wait_pc' = "context_destroyed"
                   /\ UNCHANGED <<wait_elapsed, wait_hist>>
              [] OTHER ->
                   /\ retry_count' = retry_count + 1
                   /\ wait_hist' = [wait_hist EXCEPT !.other = @ + 1]
                   /\ IF retry_count + 1 >= max_retries
                      THEN wait_pc' = "other_retries" /\ UNCHANGED wait_elapsed
                      ELSE wait_elapsed' = wait_elapsed + 1 /\ UNCHANGED wait_pc

otherWaitVars == <<coreVars, sizeVars, loaderVars, verifyVars, filesVars, pageVars>>

----------------------------------------------------------------------------
\* TikTokAuth.verify_login_status: one action per step of the hierarchy, on a page
\* whose answers are fixed when the call starts.

\* window.location.href: the login URL, the main page, another URL, or the
\* evaluation raises.
UrlAnswers == {"login", "home", "other", "raises"}

\* page.select / page.find: an element, nothing, or an exception.
SelectAnswers == {"found", "absent", "raises"}

\* The three login button selectors and the four login element selectors.
login_button_selectors == 3
login_element_selectors == 4

PageAnswers ==
    [url : UrlAnswers,
     buttons : [1..login_button_selectors -> SelectAnswers],
     elements : [1..login_element_selectors -> SelectAnswers],
     text : SelectAnswers]

\* Mutant of Indicates: an exception counts as the indicator found.
IndicatesOrRaises(answer) == answer # "absent"

\* if login_button: ... return False, inside try / except Exception: continue
Indicates(answer) == answer = "found"

\* for selector in selectors: the first selector that indicates ends the call.
AnyIndicates(answers) == \E i \in DOMAIN answers : Indicates(answers[i])

InitVerify ==
    /\ page_checks \in PageAnswers
    /\ verify_pc = "url"
    /\ verify_log = [checks |-> <<>>, ret |-> <<>>]

\* The check `name` has run: with an indicator the call returns False, otherwise it
\* goes on to next_pc, and returns True after the last check.
VerifyStep(name, indicated, next_pc) ==
    /\ verify_pc = name
    /\ verify_pc' = IF indicated \/ next_pc = "returned" THEN "returned" ELSE next_pc
    /\ verify_log' = [checks |-> Append(verify_log.checks, name),
                      ret |-> IF indicated THEN <<FALSE>>
                              ELSE IF next_pc = "returned" THEN <<TRUE>> ELSE <<>>]
    /\ UNCHANGED page_checks

\* Step 1, lines 31-46: the URL; an exception goes on to the element checks.
VerifyUrl == VerifyStep("url", page_checks.url = "login", "buttons")

\* Step 2, lines 50-65: the login buttons.
VerifyButtons == VerifyStep("buttons", AnyIndicates(page_checks.buttons), "elements")

\* Step 3, lines 69-85: the login page elements.
VerifyElements == VerifyStep("elements", AnyIndicates(page_checks.elements), "text")

\* Lines 87-97: the login text, then return True.
VerifyText == VerifyStep("text", Indicates(page_checks.text), "returned")

otherVerifyVars == <<coreVars, sizeVars, loaderVars, waitVars, filesVars, pageVars>>

----------------------------------------------------------------------------
\* A monitor on the shared page: the profile loader, whose start_session started
\* the browser, or the comments loader, which inherits the session. The page
\* emits the events of a request in order and calls the handlers registered for
\* them; the monitor goes from one scraping unit to the next.

\* start_browser registers the five handlers (lines 103-107); the comments loader
\* is constructed without a page.
InitPage ==
    /\ handlers \in {PageEvents, {}}
    /\ session_inherited = FALSE
    /\ page_stage = [id \in ReqIds |-> "none"]
    /\ unit_no = 1
    /\ info_unit = <<>>

\* inherit_session_from_profile_loader (lines 131-154) on a comments loader: the
\* page of the profile loader is taken over and one handler is added.
InheritSessionFromProfileLoader ==
    /\ handlers = {}
    /\ ~session_inherited
    /\ is_running' = TRUE
    /\ handlers' = handlers \cup {"ResponseReceived"}
    /\ session_inherited' = TRUE
    /\ UNCHANGED <<tracked_requests, infos, tasks, matched_responses, hist, fetch_errors,
                   page_stage, unit_no, info_unit>>

\* The monitor is on the page: started, or inherited.
OnPage == handlers # {}

\* The page sends a request: RequestWillBeSent.
PageRequestWillBeSent(id, matches) ==
    /\ OnPage
    /\ page_stage[id] = "none"
    /\ page_stage' = [page_stage EXCEPT ![id] = IF matches THEN "request" ELSE "other"]
    /\ IF "RequestWillBeSent" \in handlers
       THEN /\ OnRequestWillBeSent(id, matches)
            /\ info_unit' = IF Len(infos') > Len(infos) THEN Append(info_unit, unit_no)
                                                        ELSE info_unit
       ELSE UNCHANGED <<monVars, info_unit>>
    /\ UNCHANGED <<handlers, session_inherited, unit_no>>

\* The headers of the response arrive: ResponseReceived.
PageResponseReceived(id, h) ==
    /\ page_stage[id] = "request"
    /\ page_stage' = [page_stage EXCEPT ![id] = "response"]
    /\ IF "ResponseReceived" \in handlers
       THEN OnResponseReceived(id, h)
       ELSE UNCHANGED monVars
    /\ UNCHANGED <<handlers, session_inherited, unit_no, info_unit>>

\* The response is complete: LoadingFinished.
PageLoadingFinished(id) ==
    /\ page_stage[id] = "response"
    /\ page_stage' = [page_stage EXCEPT ![id] = "finished"]
    /\ IF "LoadingFinished" \in handlers
       THEN OnLoadingFinished(id)
       ELSE UNCHANGED monVars
    /\ UNCHANGED <<handlers, session_inherited, unit_no, info_unit>>

\* The next unit begins: load_profile_posts (profileLoader.py line 452) and
\* _process_post_comments (commentLoader.py line 643) empty matched_responses
\* and go on; tracked_requests and the retrieval tasks are left as they are.
NextUnitClearsResponses ==
    /\ OnPage
    /\ unit_no < MaxUnits
    /\ unit_no' = unit_no + 1
    /\ matched_responses' = <<>>
    /\ UNCHANGED <<is_running, tracked_requests, infos, tasks, hist, fetch_errors,
                   handlers, session_inherited, page_stage, info_unit>>

otherPageVars == <<coreVarsButMonitor, sizeVars, loaderVars, waitVars, verifyVars, filesVars>>

----------------------------------------------------------------------------
\* The saved data directory under _save_current_state, _cleanup_old_saved_files
\* and _cleanup_current_saved_file. A file is its name (the second of its
\* timestamp) and its modification time; one second has one file name.

\* tiktok_scraper_state_<timestamp>.json written now
FileWrittenAt(second) == [name |-> second, mtime |-> second]

\* The files earlier runs left: at most keep_count here, the newest of them
\* being the one _load_saved_state takes.
LoadedFile == FileWrittenAt(-1)

EarlierFiles == {{FileWrittenAt(-k) : k \in 1..n} : n \in 0..keep_count}

\* files.sort(key=os.path.getmtime, reverse=True)
NewerThan(f, g) == f.mtime > g.mtime

\* _get_saved_data_files: the files of the directory, sorted.
RECURSIVE GetSavedDataFiles(_)
GetSavedDataFiles(dir) ==
    IF dir = {} THEN <<>>
    ELSE LET first == CHOOSE f \in dir : \A g \in dir \ {f} : NewerThan(f, g)
         IN  <<first>> \o GetSavedDataFiles(dir \ {first})

\* _cleanup_old_saved_files: saved_files[keep_count:] are removed.
CleanupOldSavedFiles(dir) ==
    LET files == GetSavedDataFiles(dir)
    IN  {files[k] : k \in {j \in DOMAIN files : j <= keep_count}}

InitFiles ==
    /\ save_clock = 0
    /\ saved_dir \in EarlierFiles
    /\ just_saved = NoSave

\* What the try block of _save_current_state may do: run to its end, raise in
\* get_complete_results before the file is opened, or raise in json.dump after
\* open() created the file (a string json.dump cannot encode, for one).
SaveOutcomes == {"written", "results_failed", "dump_failed"}

\* _save_current_state: the file of this second is opened (again, if it is
\* there), written, and the old files are cleaned up; an exception ends the
\* call where it is raised and is swallowed.
SaveToDirectory(outcome) ==
    LET opened == {f \in saved_dir : f.name # save_clock} \cup {FileWrittenAt(save_clock)}
    IN  /\ CASE outcome = "written" ->
                   /\ saved_dir' = CleanupOldSavedFiles(opened)
                   /\ just_saved' = [what |-> outcome,
                                     removed |-> opened \ CleanupOldSavedFiles(opened)]
             [] outcome = "dump_failed" ->
                   /\ saved_dir' = opened
                   /\ just_saved' = [what |-> outcome, removed |-> {}]
             [] OTHER ->
                   /\ just_saved' = [what |-> outcome, removed |-> {}]
                   /\ UNCHANGED saved_dir
        /\ UNCHANGED save_clock

\* _cleanup_current_saved_file: the file loaded at the start is removed if it is
\* still there.
CleanupCurrentSavedFile ==
    /\ saved_dir' = saved_dir \ {LoadedFile}
    /\ just_saved' = NoSave
    /\ UNCHANGED save_clock

\* A second passes.
SecondPasses ==
    /\ save_clock < MaxSaveSeconds
    /\ save_clock' = save_clock + 1
    /\ just_saved' = NoSave
    /\ UNCHANGED saved_dir

otherFilesVars == <<coreVars, sizeVars, loaderVars, waitVars, verifyVars, pageVars>>

----------------------------------------------------------------------------
\* Properties of the correlation engine

Terminal(st) == st \in {BODY_RETRIEVED, FAILED}

ResponsesOf(i) == {k \in DOMAIN matched_responses : matched_responses[k].info = i}
ResponsesBy(t) == {k \in DOMAIN matched_responses : matched_responses[k].task = t}
TasksOf(i) == {t \in DOMAIN tasks : tasks[t].info = i}
Ended(t) == tasks[t].pc = "done" /\ tasks[t].outcome \in {"retrieved", "failed"}
Abandoned(t) == tasks[t].pc = "done" /\ tasks[t].outcome = "abandoned"

\* C1 (as claimed): every request whose loading-finished event was handled while
\* is_running was true has, once its retrieval is over, exactly one CapturedResponse
\* in matched_responses, and never more than one.
C1_ExactlyOncePerRequest ==
    \A i \in DOMAIN infos :
        hist[i] >= 1 =>
            /\ Cardinality(ResponsesOf(i)) <= 1
            /\ (\A t \in TasksOf(i) : tasks[t].pc = "done") => Cardinality(ResponsesOf(i)) = 1

\* C1 (amended): each loading-finished event handled while is_running is true starts
\* one retrieval task for the request; a task that ends without having found
\* is_running false has appended exactly one CapturedResponse, for its own request,
\* and any other task none. So a request with one handled loading-finished event
\* whose retrieval was not cancelled has exactly one CapturedResponse.
C1_OncePerRetrieval ==
    /\ \A i \in DOMAIN infos : Cardinality(TasksOf(i)) = hist[i]
    /\ \A t \in DOMAIN tasks :
          /\ Cardinality(ResponsesBy(t)) = IF Ended(t) THEN 1 ELSE 0
          /\ \A k \in ResponsesBy(t) : matched_responses[k].info = tasks[t].info
    /\ \A k \in DOMAIN matched_responses : matched_responses[k].task \in DOMAIN tasks
    /\ \A i \in DOMAIN infos :
          (hist[i] = 1 /\ \A t \in TasksOf(i) : Ended(t)) => Cardinality(ResponsesOf(i)) = 1

\* Two requests, each with one loading-finished event, both retrievals over while
\* the monitor is still running, one captured with a body and one without.
C1_Witness ==
    /\ is_running
    /\ \E i, j \in DOMAIN infos :
          /\ infos[i].request_id # infos[j].request_id
          /\ hist[i] = 1 /\ hist[j] = 1
          /\ \A t \in TasksOf(i) \cup TasksOf(j) : Ended(t)
          /\ \E k \in ResponsesOf(i) : matched_responses[k].body = "data"
          /\ \E k \in ResponsesOf(j) : matched_responses[k].body = "null"

\* C2: a body fetch is sent only by a task of a RequestInfo for which loading-finished
\* has been handled (so the object has been in LOADING_FINISHED), and only such an
\* object reaches BODY_RETRIEVED or gets a CapturedResponse.
C2_FetchOnlyAfterLoadingFinished ==
    /\ \A t \in DOMAIN tasks : hist[tasks[t].info] >= 1
    /\ \A i \in DOMAIN infos : infos[i].state = BODY_RETRIEVED => hist[i] >= 1
    /\ \A k \in DOMAIN matched_responses : hist[matched_responses[k].info] >= 1

\* A fetch in flight for one request while another one is already BODY_RETRIEVED.
C2_Witness ==
    /\ \E t \in DOMAIN tasks : tasks[t].pc = "fetching"
    /\ \E i \in DOMAIN infos : infos[i].state = BODY_RETRIEVED

\* C3 (as claimed): no step changes the state of a RequestInfo that is in a terminal
\* state (BODY_RETRIEVED or FAILED).
C3_TerminalIsFinal ==
    [][\A i \in DOMAIN infos : Terminal(infos[i].state) => infos'[i].state = infos[i].state]_vars

\* C4: a retrieval task that ends after nothing but retryable failures (timeouts,
\* resource-not-found errors) has sent exactly max_retry_attempts + 1 fetches, and its
\* last step appends one CapturedResponse with a null body and an error.
C4_RetryBound ==
    [][\A t \in DOMAIN tasks :
          (tasks[t].pc = "fetching" /\ tasks'[t].pc = "done" /\ tasks'[t].only_retryable) =>
              /\ tasks[t].fetches = max_retry_attempts + 1
              /\ Len(matched_responses') = Len(matched_responses) + 1
              /\ LET r == matched_responses'[Len(matched_responses')] IN
                    r.task = t /\ r.body = "null" /\ r.error
              /\ Cardinality({k \in DOMAIN matched_responses' : matched_responses'[k].task = t}) = 1]_vars

\* A task has run out of attempts on retryable failures.
C4_Witness ==
    \E t \in DOMAIN tasks :
        /\ tasks[t].pc = "done" /\ tasks[t].outcome = "failed" /\ tasks[t].only_retryable
        /\ is_running

\* C5 (as claimed): a RequestInfo that loading-failed moved to FAILED has a
\* CapturedResponse with a null body and an error marker in matched_responses.
C5_LoadingFailedEmitsResponse ==
    \A i \in DOMAIN infos :
        infos[i].state = FAILED =>
            \E k \in ResponsesOf(i) : matched_responses[k].body = "null" /\ matched_responses[k].error

----------------------------------------------------------------------------
\* Properties of the session start-up

StartupOver == auth_pc \in {"active", "failed", "ended"}

\* C6 (as claimed): when perform_login succeeded for a working account, the account
\* is marked working, the cookies are saved, no later account is attempted, and the
\* start-up ends authenticated, without AuthenticationError.
C6_LoginSuccessAuthenticates ==
    (StartupOver /\ auth_hist.login_ok # <<>>) =>
        /\ \A k \in DOMAIN accounts :
              accounts[k].username = auth_hist.login_ok[1] =>
                  accounts[k].isWorking /\ accounts[k].lastFailure = "none"
        /\ auth_hist.cookies_saved /\ session_file
        /\ auth_hist.attempts[Len(auth_hist.attempts)] = auth_hist.login_ok[1]
        /\ ~auth_hist.auth_error
        /\ auth_pc = "active" => is_authenticated

\* C7: when the cached cookies did not validate and no login succeeded, the start-up
\* ends in AuthenticationError with the browser stopped, neither session_active flag
\* is ever true and no workflow runs; and in every state session_active implies
\* is_authenticated, on the profile loader and on the orchestrator.
C7_AuthFailureIsFatal ==
    /\ (StartupOver /\ ~auth_hist.cookie_valid /\ auth_hist.login_ok = <<>>) =>
          /\ auth_hist.auth_error /\ auth_pc = "failed"
          /\ browser_stops >= 1 /\ ~is_running
          /\ ~pl_session_active /\ ~session_active
          /\ ~auth_hist.work_started
    /\ pl_session_active => is_authenticated
    /\ session_active => pl_session_active
    /\ auth_hist.work_started => is_authenticated

\* Every available account was tried and failed, and the workflow was asked to run.
C7_Witness ==
    /\ auth_pc = "failed"
    /\ ~auth_hist.cookie_valid
    /\ Len(auth_hist.attempts) = MaxAccounts
    /\ auth_hist.login_ok = <<>>
    /\ \A k \in DOMAIN accounts : ~accounts[k].isWorking /\ accounts[k].lastFailure = "recent"

\* C18 (as claimed): over a session lifecycle the browser's stop() is invoked at
\* most once.
C18_BrowserStoppedAtMostOnce == browser_stops <= 1

----------------------------------------------------------------------------
\* Properties of the session budget

Elapsed == now

\* C8 (as claimed): with duration T and configured grace period G, every call of
\* should_continue returns true when elapsed < T + G and false when elapsed >= T + G.
C8_BudgetThenGrace ==
    [][ShouldContinue =>
          ret' = <<Elapsed < (session_duration_limit + grace_period_seconds) * TicksPerSecond>>]_vars

----------------------------------------------------------------------------
\* Properties of the workflow

BudgetAndGrace == (session_duration_limit + GraceSeconds) * TicksPerSecond

\* C9 (as claimed): every unit of work starts right after a budget check that
\* passed and before the budget plus the grace period is used up; once a check has
\* failed a checkpoint is written and no further unit starts.
C9_CheckedBeforeEachUnit ==
    /\ \A u \in units : u.checked /\ u.started_at < BudgetAndGrace /\ ~u.after_stop
    /\ (ret = <<FALSE>> => checkpoints >= 1)

----------------------------------------------------------------------------
\* Properties of the resume point

PendingHashtags == {h \in Range(saved_state.original_hashtags) : h \notin saved_state.hashtags_data}

ProfilesWithoutCount ==
    {e.user_id : e \in {x \in Range(saved_state.profiles_data) : ~x.has_posts_count}}

PostsWithoutComments ==
    {e.post_id : e \in {x \in Range(saved_state.posts_data) :
                            ~x.in_post_to_comments \/ x.comments = 0}}

ExpectedResume(phase, pending) ==
    \A r \in Range(resume_point) : r.phase = phase /\ Range(r.items) = pending

\* C10 (as claimed): the resume point is SEARCH with the hashtags absent from
\* hashtags_data when there are any; otherwise PROFILES with the profiles that have
\* no recorded post count when there are any; otherwise COMMENTS with the posts that
\* have no linked comment when there are any; otherwise COMPLETE with nothing pending.
C10_ResumePointCascade ==
    IF PendingHashtags # {} THEN ExpectedResume("search", PendingHashtags)
    ELSE IF ProfilesWithoutCount # {} THEN ExpectedResume("profiles", ProfilesWithoutCount)
    ELSE IF PostsWithoutComments # {} THEN ExpectedResume("comments", PostsWithoutComments)
    ELSE ExpectedResume("complete", {})

----------------------------------------------------------------------------
\* Properties of the orchestrator's data

KeysOf(d) == DOMAIN d

\* The set-valued map d holds v under k.
Holds(d, k, v) == k \in DOMAIN d /\ v \in d[k]

\* The map d gives v for k.
Gives(d, k, v) == k \in DOMAIN d /\ d[k] = v

SameCounts(a, b) ==
    /\ Cardinality(DOMAIN a.hashtags_data) = Cardinality(DOMAIN b.hashtags_data)
    /\ Cardinality(DOMAIN a.profiles_data) = Cardinality(DOMAIN b.profiles_data)
    /\ Cardinality(a.posts_data) = Cardinality(b.posts_data)
    /\ Cardinality(a.comments_data) = Cardinality(b.comments_data)

SameRelationships(a, b) ==
    /\ a.hashtag_to_profiles = b.hashtag_to_profiles
    /\ a.profile_to_hashtags = b.profile_to_hashtags
    /\ a.profile_to_posts = b.profile_to_posts
    /\ a.post_to_profile = b.post_to_profile
    /\ a.post_to_comments = b.post_to_comments
    /\ a.comment_to_post = b.comment_to_post
    /\ a.comment_to_profile = b.comment_to_profile

\* C11: a fresh orchestrator that loaded the checkpoint has as many hashtags,
\* profiles, posts and comments, and the same relationship maps, as the
\* orchestrator had when _save_current_state wrote the checkpoint.
C11_SaveRestoreRoundTrip ==
    \A r \in Range(restored) : SameCounts(r.state, r.origin) /\ SameRelationships(r.state, r.origin)

\* A checkpoint holding a hashtag, a profile, a post and a comment, with their
\* links, was saved and restored.
C11_Witness ==
    \E r \in Range(restored) :
        /\ r.origin.comments_data # {}
        /\ DOMAIN r.origin.hashtag_to_profiles # {}
        /\ DOMAIN r.origin.post_to_comments # {}
        /\ DOMAIN r.state.comment_to_profile # {}

\* C12 (as claimed): forward and reverse relationship maps agree.
C12_ForwardReverseAgree ==
    /\ \A h \in HashtagInputs, u \in UserIds :
          Holds(orch.hashtag_to_profiles, h, u) <=> Holds(orch.profile_to_hashtags, u, h)
    /\ \A u \in UserIds, p \in PostIds :
          Holds(orch.profile_to_posts, u, p) <=> Gives(orch.post_to_profile, p, u)
    /\ \A p \in PostIds, c \in CommentIds :
          Holds(orch.post_to_comments, p, c) <=> Gives(orch.comment_to_post, c, p)

\* C13 (as claimed): a post is in the post set of at most one profile, a comment
\* in the comment set of at most one post, and comment_to_profile[c] is the owner
\* of the post of c.
C13_SingleOwner ==
    /\ \A p \in PostIds : Cardinality({u \in UserIds : Holds(orch.profile_to_posts, u, p)}) <= 1
    /\ \A c \in CommentIds : Cardinality({p \in PostIds : Holds(orch.post_to_comments, p, c)}) <= 1
    /\ \A c \in DOMAIN orch.comment_to_profile :
          /\ c \in DOMAIN orch.comment_to_post
          /\ Gives(orch.post_to_profile, orch.comment_to_post[c], orch.comment_to_profile[c])

----------------------------------------------------------------------------
\* One unit of a phase scraper: search_hashtag (one hashtag), load_profile_posts
\* (one profile), _process_post_comments (one post). The records extracted from the
\* captured responses are collected in order, deduplicated by id, then (search only)
\* sorted by engagement, then cut to the configured limit.

ItemIds == 1..MaxItemIds

Engagements == 0..MaxEngagement

UnitKinds == {"search", "posts", "comments"}

\* What one response contributes: one or two records, each an id and an engagement.
ResponseItems ==
    {l \in SeqsUpTo(ItemIds \X Engagements, 2) : Len(l) >= 1}

\* The record extracted from an item; seen is a history field, the position of the
\* record among the records captured in the unit (it tells two captures of one id
\* apart, as the payload of the records does).
ItemRecord(item, position) ==
    [id |-> item[1], engagement |-> item[2], seen |-> position]

\* all_items.extend(items)
Extended(all, items) ==
    all \o [i \in 1..Len(items) |-> ItemRecord(items[i], Len(all) + i)]

\* Mutant of Unique: unique[r.id] = r without the membership test (the place of the
\* key in the dictionary stays that of its first insertion).
RECURSIVE UniqueLastSeen(_, _, _)
UniqueLastSeen(all, i, unique) ==
    IF i > Len(all) THEN unique
    ELSE IF \E k \in DOMAIN unique : unique[k].id = all[i].id
         THEN UniqueLastSeen(all, i + 1,
                  [k \in DOMAIN unique |-> IF unique[k].id = all[i].id THEN all[i] ELSE unique[k]])
         ELSE UniqueLastSeen(all, i + 1, Append(unique, all[i]))

\* unique = {}; for r in all: if r.id not in unique: unique[r.id] = r
\* list(unique.values()): a dictionary keeps the order of insertion.
RECURSIVE Unique(_, _, _)
Unique(all, i, unique) ==
    IF i > Len(all) THEN unique
    ELSE IF \E k \in DOMAIN unique : unique[k].id = all[i].id
         THEN Unique(all, i + 1, unique)
         ELSE Unique(all, i + 1, Append(unique, all[i]))

\* Mutant of InsertByEngagement: the list stays in the order of capture.
InsertUnsorted(sorted, r) == Append(sorted, r)

\* The place of r in a list sorted by engagement, descending: behind every record
\* with at least its engagement (sorted is stable, also with reverse=True).
InsertByEngagement(sorted, r) ==
    LET n == Cardinality({k \in DOMAIN sorted : sorted[k].engagement >= r.engagement})
    IN  SubSeq(sorted, 1, n) \o <<r>> \o SubSeq(sorted, n + 1, Len(sorted))

\* sorted(values, key=lambda p: p.follower_count + p.heart_count, reverse=True)
RECURSIVE SortedByEngagement(_, _, _)
SortedByEngagement(values, i, sorted) ==
    IF i > Len(values) THEN sorted
    ELSE SortedByEngagement(values, i + 1, InsertByEngagement(sorted, values[i]))

\* list[:limit]
Limited(list, limit) ==
    SubSeq(list, 1, IF Len(list) > limit THEN limit ELSE Len(list))

\* search_hashtag, lines 273-283
SearchHashtagProfiles(all, limit) ==
    Limited(SortedByEngagement(Unique(all, 1, <<>>), 1, <<>>), limit)

\* load_profile_posts, lines 483-494
LoadProfilePostsList(all, limit) ==
    Limited(Unique(all, 1, <<>>), limit)

\* _process_post_comments, lines 668-678
ProcessPostCommentsList(all, limit) ==
    Limited(Unique(all, 1, <<>>), limit)

UnitIdle ==
    /\ unit_kind = "search"
    /\ max_per_unit = 1
    /\ all_items = <<>>
    /\ unit_result = <<>>


InitUnit ==
    /\ unit_kind \in UnitKinds
    /\ max_per_unit \in 1..MaxPerUnit
    /\ all_items = <<>>
    /\ unit_result = <<>>

\* A matched response arrives while the unit scrolls; its records are extracted.
CaptureResponse(items) ==
    /\ unit_result = <<>>
    /\ Len(all_items) + Len(items) <= MaxCaptured
    /\ all_items' = Extended(all_items, items)
    /\ UNCHANGED <<unit_kind, max_per_unit, unit_result>>

SearchHashtagResult ==
    /\ unit_kind = "search"
    /\ unit_result = <<>>
    /\ unit_result' = <<SearchHashtagProfiles(all_items, max_per_unit)>>
    /\ UNCHANGED <<unit_kind, max_per_unit, all_items>>

LoadProfilePostsResult ==
    /\ unit_kind = "posts"
    /\ unit_result = <<>>
    /\ unit_result' = <<LoadProfilePostsList(all_items, max_per_unit)>>
    /\ UNCHANGED <<unit_kind, max_per_unit, all_items>>

ProcessPostCommentsResult ==
    /\ unit_kind = "comments"
    /\ unit_result = <<>>
    /\ unit_result' = <<ProcessPostCommentsList(all_items, max_per_unit)>>
    /\ UNCHANGED <<unit_kind, max_per_unit, all_items>>

\* The next unit starts: self.matched_responses = [] / .clear()
ClearResponses(kind, limit) ==
    /\ unit_result # <<>>
    /\ unit_kind' = kind
    /\ max_per_unit' = limit
    /\ all_items' = <<>>
    /\ unit_result' = <<>>

otherUnitVars == <<monVars, authVars, budgetVars, flowVars, resumeVars, graphVars, runVars, auxVars>>

----------------------------------------------------------------------------
\* run_full_workflow on the orchestrator's data (unified_scraper.py lines 552-620
\* and 722-935), with what the scrapers return given by the environment. The time
\* budget is reduced to what the phases see of it: _check_time_and_save_if_needed
\* answers True until the grace period is over and False from then on.

\* tag.strip()
RECURSIVE LStrip(_)
LStrip(tag) == IF tag # <<>> /\ Head(tag) = " " THEN LStrip(Tail(tag)) ELSE tag

RECURSIVE RStrip(_)
RStrip(tag) ==
    IF tag # <<>> /\ tag[Len(tag)] = " " THEN RStrip(SubSeq(tag, 1, Len(tag) - 1)) ELSE tag

\* _normalize_hashtags, lines 72-77: strip, then '#' in front unless it is there.
NormalizeHashtag(tag) ==
    LET stripped == RStrip(LStrip(tag))
    IN  IF stripped # <<>> /\ stripped[1] = "#" THEN stripped ELSE <<"#">> \o stripped

NormalizeHashtags(tags) == [i \in DOMAIN tags |-> NormalizeHashtag(tags[i])]

\* search_all_hashtags: results[hashtag] = profiles for each hashtag of
\* self.hashtags in order; found[i] is what search_hashtag returned for the i-th.
RECURSIVE SearchAllHashtags(_, _, _, _)
SearchAllHashtags(tags, found, i, results) ==
    IF i > Len(tags) THEN results
    ELSE SearchAllHashtags(tags, found, i + 1, Put(results, tags[i], found[i]))

\* d.get(k, [])
GetOr(d, k) == IF k \in DOMAIN d THEN d[k] ELSE <<>>

\* _determine_resume_point on the orchestrator's data (lines 296-331).
ResumePhaseOf(o, original_hashtags) ==
    LET Pending(h) == h \notin DOMAIN o.hashtags_data
        pending == SelectSeq(original_hashtags, Pending)
    IN  IF pending # <<>> THEN [phase |-> "search", items |-> pending]
        ELSE IF ProfilesToProcess(o) # {} THEN [phase |-> "profiles", items |-> <<>>]
        ELSE IF PostsNeedingComments(o) # {} THEN [phase |-> "comments", items |-> <<>>]
        ELSE [phase |-> "complete", items |-> <<>>]

\* The locals of a run that has not started, in a fresh process: no saved file
\* loaded, nothing in profile_loader.profile_posts.
InitialRun ==
    [hashtags |-> <<>>, resumed |-> FALSE, resume_phase |-> "search", items |-> <<>>,
     search_results |-> EmptyDict, todo |-> <<>>, idx |-> 0,
     profile_posts |-> EmptyDict, loaded |-> 0, last_saved |-> <<>>, budget_over |-> FALSE,
     current_phase |-> "idle"]

InitialRunHist ==
    [cut_at |-> "", raised |-> FALSE, deleted |-> FALSE, success |-> FALSE,
     attempts |-> <<>>, profiles_list |-> <<>>, comment_failures |-> {}]

RunIdle ==
    /\ run_pc = "idle"
    /\ run = InitialRun
    /\ run_hist = InitialRunHist

\* The size classes: a monitor with the default timeout, one tracked request.
SizeIdle ==
    /\ timeout = 10
    /\ request_info = RequestInfo("r1")
    /\ retrieval = <<>>

\* The comments loader before load_all_comments.
LoaderIdle ==
    /\ loader_pc = "idle"
    /\ current_post_index = 0
    /\ total_posts_to_process = 0
    /\ open_posts = {}
    /\ loader_hist = NoLoaderHist

WaitIdle ==
    /\ wait_pc = "idle"
    /\ retry_count = 0
    /\ wait_elapsed = 0
    /\ wait_hist = NoWaitHist

VerifyIdle ==
    /\ page_checks = <<>>
    /\ verify_pc = "idle"
    /\ verify_log = <<>>

FilesIdle ==
    /\ save_clock = 0
    /\ saved_dir = {}
    /\ just_saved = NoSave

\* A monitor started by start_browser, no request on the page yet.
PageIdle ==
    /\ handlers = PageEvents
    /\ session_inherited = FALSE
    /\ page_stage = [id \in ReqIds |-> "none"]
    /\ unit_no = 1
    /\ info_unit = <<>>

AuxIdle == SizeIdle /\ LoaderIdle /\ WaitIdle /\ VerifyIdle /\ FilesIdle /\ PageIdle

DataIdle == GraphIdle /\ UnitIdle /\ RunIdle /\ AuxIdle

\* What _save_current_state leaves in the directory: a new file in front, or the
\* files as they were when get_complete_results raised. `last` is what this process
\* wrote before (<<>>: nothing): its sets unchanged, list(s) lists them as before.
SavedFilesAfter(files, o, last) ==
    IF ~CanSerialize(o) THEN {files}
    ELSE IF last # <<>> /\ last[1].origin = o THEN {WithNewFile(files, last[1])}
    ELSE {WithNewFile(files, f) : f \in CheckpointsOf(o)}

\* Where the file loaded at the start is once a new file is in front of it (0: no
\* file loaded, or removed by _cleanup_old_saved_files).
LoadedAfterSave(loaded, o) ==
    IF loaded = 0 \/ ~CanSerialize(o) THEN loaded
    ELSE IF loaded + 1 > keep_count THEN 0 ELSE loaded + 1

\* The files without the k-th.
WithoutFile(files, k) == SubSeq(files, 1, k - 1) \o SubSeq(files, k + 1, Len(files))

\* _check_time_and_save_if_needed found the budget used up: the state is saved and
\* the caller returns; the run goes on at next_pc.
Stopped(next_pc) ==
    /\ \E files \in SavedFilesAfter(saved_files, orch, run.last_saved) :
          /\ saved_files' = files
          /\ run' = [run EXCEPT !.loaded = LoadedAfterSave(run.loaded, orch),
                                !.last_saved = IF CanSerialize(orch) THEN <<files[1]>> ELSE @]
    /\ run_hist' = [run_hist EXCEPT !.cut_at = IF @ = "" THEN run_pc ELSE @]
    /\ run_pc' = next_pc
    /\ UNCHANGED <<orch, restored, ops>>

\* A unit of a loop was given to a scraper: item, and what came back.
Attempted(phase, item, got) ==
    [run_hist EXCEPT !.attempts = Append(@, [phase |-> phase, item |-> item, got |-> got])]

\* UnifiedScraperConfig.check_for_saved_data, as configured by default
check_for_saved_data == TRUE

\* Mutant of RunBegin: a resumed run starts over at the search phase.
RunBeginFromSearch(hs) ==
    /\ run_pc = "idle"
    /\ LET resumed == check_for_saved_data /\ saved_files # <<>>
           o == IF resumed THEN RestoreFromSavedData(saved_files[1]) ELSE orch
           point == IF resumed THEN ResumePhaseOf(o, hs) ELSE [phase |-> "search", items |-> hs]
           complete == resumed /\ point.phase = "complete"
       IN  /\ orch' = o
           /\ run' = [run EXCEPT !.hashtags = hs, !.resumed = resumed,
                                 !.resume_phase = point.phase, !.items = point.items,
                                 !.loaded = IF resumed /\ ~complete THEN 1 ELSE 0]
           /\ saved_files' = IF complete THEN Tail(saved_files) ELSE saved_files
           /\ run_hist' = [run_hist EXCEPT !.deleted = complete]
           /\ run_pc' = IF complete THEN "returned" ELSE "search_check"
    /\ UNCHANGED <<restored, ops>>

\* Lines 556-585: _load_saved_state, _determine_resume_point with the hashtags of
\* the call (_last_session_metadata is never set), _initialize_session_state; a
\* resume point "complete" removes the loaded file and returns.
RunBegin(hs) ==
    /\ run_pc = "idle"
    /\ LET resumed == check_for_saved_data /\ saved_files # <<>>
           o == IF resumed THEN RestoreFromSavedData(saved_files[1]) ELSE orch
           point == IF resumed THEN ResumePhaseOf(o, hs) ELSE [phase |-> "search", items |-> hs]
           complete == resumed /\ point.phase = "complete"
       IN  /\ orch' = o
           /\ run' = [run EXCEPT !.hashtags = hs, !.resumed = resumed,
                                 !.resume_phase = point.phase, !.items = point.items,
                                 !.loaded = IF resumed /\ ~complete THEN 1 ELSE 0]
           /\ saved_files' = IF complete THEN Tail(saved_files) ELSE saved_files
           /\ run_hist' = [run_hist EXCEPT !.deleted = complete]
           /\ run_pc' = CASE complete -> "returned"
                          [] point.phase = "search" -> "search_check"
                          [] point.phase = "profiles" -> "profiles_check"
                          [] OTHER -> "comments_check"
    /\ UNCHANGED <<restored, ops>>

\* Lines 594-597 and 730-732: the check before the search phase, then
\* search_all_hashtags searches every hashtag of the scraper (built from
\* items_to_process, normalised).
RunSearchPhase(found) ==
    /\ run_pc = "search_check"
    /\ IF run.budget_over
       THEN found = <<>> /\ Stopped("returned")
       ELSE /\ found \in [DOMAIN run.items -> DistinctSeqs(UserIds, MaxSavedProfiles)]
            /\ run' = [run EXCEPT !.search_results =
                           SearchAllHashtags(NormalizeHashtags(run.items), found, 1, EmptyDict),
                                  !.idx = 1, !.current_phase = "search"]
            /\ run_pc' = "search_loop"
            /\ UNCHANGED <<orch, saved_files, restored, ops, run_hist>>

\* Lines 734-778: one turn of the loop over hashtags (the hashtags as the caller
\* gave them), or its end.
RunSearchTurn ==
    /\ run_pc = "search_loop"
    /\ IF run.idx > Len(run.items)
       THEN /\ run_pc' = "profiles_check"
            /\ UNCHANGED <<orch, saved_files, restored, ops, run, run_hist>>
       ELSE IF run.budget_over
       THEN Stopped("profiles_check")
       ELSE LET hashtag == run.items[run.idx]
                profiles_for_hashtag == GetOr(run.search_results, hashtag)
            IN  /\ orch' = StoreHashtagResults(orch, hashtag, profiles_for_hashtag)
                /\ run' = [run EXCEPT !.idx = @ + 1]
                /\ run_hist' = Attempted("search", hashtag, profiles_for_hashtag)
                /\ UNCHANGED <<run_pc, saved_files, restored, ops>>

\* Lines 599-602 and 790-811: the check before the profiles phase, then the list
\* of the profiles without posts, in the order of the dictionary.
RunProfilesPhase(order) ==
    /\ run_pc = "profiles_check"
    /\ IF run.budget_over
       THEN order = <<>> /\ Stopped("returned")
       ELSE /\ order \in ListsOf(ProfilesToProcess(orch))
            /\ run' = [run EXCEPT !.todo = order, !.idx = 1,
                                  !.current_phase = IF DOMAIN orch.profiles_data = {}
                                                    THEN @ ELSE "profiles"]
            /\ run_hist' = [run_hist EXCEPT !.profiles_list = order]
            /\ run_pc' = IF order = <<>> THEN "comments_check" ELSE "profiles_loop"
            /\ UNCHANGED <<orch, saved_files, restored, ops>>

\* The posts load_profile_posts may return for user_id: none, or posts that are
\* not another profile's.
PostsOf(o, user_id) ==
    {posts \in DistinctSeqs(PostIds, MaxSavedPosts) :
        \A k \in DOMAIN posts :
            posts[k] \in DOMAIN o.post_to_profile => o.post_to_profile[posts[k]] = user_id}

\* Lines 813-858: one turn of the loop over profiles_to_process, or its end;
\* load_profile_posts keeps what it returns in profile_loader.profile_posts.
RunProfilesTurn(posts) ==
    /\ run_pc = "profiles_loop"
    /\ IF run.idx > Len(run.todo)
       THEN /\ posts = <<>>
            /\ run_pc' = "comments_check"
            /\ UNCHANGED <<orch, saved_files, restored, ops, run, run_hist>>
       ELSE IF run.budget_over
       THEN posts = <<>> /\ Stopped("comments_check")
       ELSE LET user_id == run.todo[run.idx]
            IN  /\ posts \in PostsOf(orch, user_id)
                /\ orch' = StoreProfilePosts(orch, user_id, posts)
                /\ run' = [run EXCEPT !.idx = @ + 1,
                                      !.profile_posts = IF posts # <<>>
                                                        THEN Put(run.profile_posts, user_id, posts)
                                                        ELSE run.profile_posts]
                /\ run_hist' = Attempted("profiles", user_id, posts)
                /\ UNCHANGED <<run_pc, saved_files, restored, ops>>

\* Lines 604-607 and 866-895: the check before the comments phase, then the owners
\* of the posts without comments, in the order of the dictionary.
RunCommentsPhase(order) ==
    /\ run_pc = "comments_check"
    /\ IF run.budget_over
       THEN order = <<>> /\ Stopped("returned")
       ELSE /\ order \in ListsOf(ProfilesWithPostsNeedingComments(orch))
            /\ run' = [run EXCEPT !.todo = order, !.idx = 1,
                                  !.current_phase = IF orch.posts_data = {}
                                                    THEN @ ELSE "comments"]
            /\ run_pc' = IF PostsNeedingComments(orch) = {} THEN "finish" ELSE "comments_loop"
            /\ UNCHANGED <<orch, saved_files, restored, ops, run_hist>>

\* What load_all_comments may find for the posts of one profile: for each post a
\* list of comments, empty when the post failed; a comment belongs to one post.
CommentsOf(o, posts) ==
    {found \in [DOMAIN posts -> DistinctSeqs(CommentIds, MaxComments)] :
        /\ \A i, j \in DOMAIN posts : i # j => Range(found[i]) \cap Range(found[j]) = {}
        /\ \A i \in DOMAIN posts : \A c \in Range(found[i]) :
              c \in DOMAIN o.comment_to_post => o.comment_to_post[c] = posts[i]}

\* load_all_comments, lines 714-740: post_comments holds the posts with comments;
\* the others go to the loader's own failed_posts.
PostComments(posts, found) ==
    LET WithComments(r) == r.comments # <<>>
    IN  SelectSeq([i \in DOMAIN posts |-> [post_id |-> posts[i], comments |-> found[i]]],
                  WithComments)

\* Lines 898-932: one turn of the loop over posts_by_profile, or its end. The
\* loader takes the posts from profile_loader.profile_posts and raises ValueError
\* when the profile is not there; the except branch logs and goes on.
RunCommentsTurn(found) ==
    /\ run_pc = "comments_loop"
    /\ IF run.idx > Len(run.todo)
       THEN /\ found = <<>>
            /\ run_pc' = "finish"
            /\ UNCHANGED <<orch, saved_files, restored, ops, run, run_hist>>
       ELSE IF run.budget_over
       THEN found = <<>> /\ Stopped("finish")
       ELSE LET user_id == run.todo[run.idx]
                user_posts == {p \in PostsNeedingComments(orch) :
                                  p \in DOMAIN orch.post_to_profile /\ orch.post_to_profile[p] = user_id}
            IN  /\ run' = [run EXCEPT !.idx = @ + 1]
                /\ UNCHANGED <<run_pc, saved_files, restored, ops>>
                /\ IF user_id \notin DOMAIN orch.profiles_data
                   THEN found = <<>> /\ UNCHANGED <<orch, run_hist>>
                   ELSE IF user_id \notin DOMAIN run.profile_posts
                   THEN /\ found = <<>>
                        /\ run_hist' = [run_hist EXCEPT !.comment_failures = @ \cup user_posts]
                        /\ UNCHANGED orch
                   ELSE LET posts == run.profile_posts[user_id]
                        IN  /\ found \in CommentsOf(orch, posts)
                            /\ orch' = StoreComments(orch, PostComments(posts, found), 1)
                            /\ run_hist' = [run_hist EXCEPT !.comment_failures =
                                               @ \cup {posts[i] : i \in {j \in DOMAIN posts : found[j] = <<>>}}]

\* Lines 609-614: after the comments phase returned, the file loaded at the start
\* is removed (_cleanup_current_saved_file) and the completion is announced.
RunFinish ==
    /\ run_pc = "finish"
    /\ saved_files' = IF run.resumed /\ run.loaded # 0
                      THEN WithoutFile(saved_files, run.loaded) ELSE saved_files
    /\ run' = [run EXCEPT !.loaded = 0]
    /\ run_hist' = [run_hist EXCEPT !.deleted = run.resumed /\ run.loaded # 0, !.success = TRUE]
    /\ run_pc' = "returned"
    /\ UNCHANGED <<orch, restored, ops>>

\* Mutant of RunRaise: the exception handler does not save.
RunRaiseUnsaved ==
    /\ run_pc \in {"search_loop", "profiles_loop", "comments_loop"}
    /\ run_hist' = [run_hist EXCEPT !.raised = TRUE]
    /\ run_pc' = "raised"
    /\ UNCHANGED <<orch, saved_files, run, restored, ops>>

\* Lines 616-620: an exception leaves the loop of a phase; the handler saves the
\* state, logs, and raises it again.
RunRaise ==
    /\ run_pc \in {"search_loop", "profiles_loop", "comments_loop"}
    /\ \E files \in SavedFilesAfter(saved_files, orch, run.last_saved) :
          /\ saved_files' = files
          /\ run' = [run EXCEPT !.loaded = LoadedAfterSave(run.loaded, orch),
                                !.last_saved = IF CanSerialize(orch) THEN <<files[1]>> ELSE @]
    /\ run_hist' = [run_hist EXCEPT !.raised = TRUE]
    /\ run_pc' = "raised"
    /\ UNCHANGED <<orch, restored, ops>>

\* The grace period ends while the workflow runs: should_continue is False from
\* now on.
TimeRunsOut ==
    /\ run_pc \notin {"idle", "returned", "raised"}
    /\ ~run.budget_over
    /\ run' = [run EXCEPT !.budget_over = TRUE]
    /\ UNCHANGED <<orch, saved_files, restored, ops, run_pc, run_hist>>

\* What an earlier run that was cut short had collected when it saved: a search
\* without result; or two profiles found, the post of one loaded, the other
\* without posts.
PreviousRunData ==
    LET tag == <<"#", "t">>
        searched == StoreHashtagResults(EmptyOrch, tag, <<1, 2>>)
    IN  {StoreHashtagResults(EmptyOrch, tag, <<>>),
         StoreProfilePosts(StoreProfilePosts(searched, 1, <<1>>), 2, <<>>)}

\* The saved data directory when the program starts: empty, or the file of an
\* earlier run.
InitRun ==
    /\ orch = EmptyOrch
    /\ saved_files \in {<<>>} \cup {<<f>> : f \in UNION {CheckpointsOf(o) : o \in PreviousRunData}}
    /\ restored = <<>>
    /\ ops = 0
    /\ UnitIdle
    /\ RunIdle

\* A new process: a fresh orchestrator (__init__, lines 45-63) and fresh loaders;
\* the saved data directory is what the earlier processes left.
NewProcess ==
    /\ run_pc \in {"returned", "raised", "start_failed"}
    /\ run_pc' = "idle"
    /\ orch' = EmptyOrch
    /\ run' = InitialRun
    /\ run_hist' = InitialRunHist
    /\ UNCHANGED <<saved_files, restored, ops>>

\* run_complete_session_with_resume, lines 628-637: start_session raises (no
\* authenticated session), run_full_workflow is not reached, and the handler
\* saves the state of the orchestrator as it is.
StartSessionFails ==
    /\ run_pc = "idle"
    /\ \E files \in SavedFilesAfter(saved_files, orch, <<>>) : saved_files' = files
    /\ run_pc' = "start_failed"
    /\ UNCHANGED <<orch, restored, ops, run, run_hist>>

\* What TikTok holds while the runs of one job follow each other: one hashtag
\* with two profiles; the first profile has one post, which has a comment, the
\* second has no posts.
WorldHashtags == <<<<"#", "t">>>>
WorldProfiles == <<1, 2>>
WorldPosts(user_id) == IF user_id = 1 THEN <<1>> ELSE <<>>
WorldComments(posts) == [i \in DOMAIN posts |-> IF posts[i] = 1 THEN <<1>> ELSE <<>>]

\* The scrapers return what the world holds.
FromWorld(pc, given, held) ==
    run_pc = pc /\ run.idx <= Len(run.todo) /\ ~run.budget_over => given = held

\* The hashtag lists given to run_full_workflow.
HashtagLists ==
    (DistinctSeqs({<<"t">>, <<"#", "t">>}, MaxHashtags) \ {<<>>})
        \cup {<<<<"f", " ">>>>, <<<<"#", "t">>, <<"#", "f">>>>}

otherRunVars == <<monVars, authVars, budgetVars, flowVars, resumeVars, unitVars, auxVars>>

----------------------------------------------------------------------------
\* Properties of the deduplication

\* The records of id in a list.
RecordsOf(list, id) == {k \in DOMAIN list : list[k].id = id}

CapturedIds == {all_items[k].id : k \in DOMAIN all_items}

\* The first record captured for id.
FirstCaptured(id) ==
    all_items[CHOOSE k \in RecordsOf(all_items, id) : \A j \in RecordsOf(all_items, id) : k <= j]

\* C14 (as stated): in the result of a unit every id captured more than once has
\* exactly one record, and it is the first one captured for that id.
C14_ExactlyOneFirstSeen ==
    unit_result # <<>> =>
        \A id \in CapturedIds :
            Cardinality(RecordsOf(all_items, id)) > 1 =>
            /\ Cardinality(RecordsOf(unit_result[1], id)) = 1
            /\ \A k \in RecordsOf(unit_result[1], id) : unit_result[1][k] = FirstCaptured(id)

\* C14 (amended): the result of a unit holds at most one record per id, each record
\* it holds is the first one captured for its id, it holds no more records than the
\* configured limit, and when the captured ids are no more than the limit every
\* captured id has exactly one record.
C14_FirstSeenWinsWithinLimit ==
    unit_result # <<>> =>
        /\ \A id \in ItemIds : Cardinality(RecordsOf(unit_result[1], id)) <= 1
        /\ \A k \in DOMAIN unit_result[1] :
              /\ unit_result[1][k].id \in CapturedIds
              /\ unit_result[1][k] = FirstCaptured(unit_result[1][k].id)
        /\ Len(unit_result[1]) <= max_per_unit
        /\ Cardinality(CapturedIds) <= max_per_unit =>
              \A id \in CapturedIds : Cardinality(RecordsOf(unit_result[1], id)) = 1

\* An id was captured twice with different engagement, and the unit returned a
\* record for it.
C14_Witness ==
    /\ unit_result # <<>>
    /\ \E id \in CapturedIds :
          /\ \E j, k \in RecordsOf(all_items, id) : all_items[j].engagement # all_items[k].engagement
          /\ RecordsOf(unit_result[1], id) # {}

\* C23: search_hashtag returns profiles with pairwise distinct user ids, at most
\* max_profiles_per_hashtag of them, in descending order of follower_count +
\* heart_count, and no profile left out by the truncation has a strictly higher
\* follower_count + heart_count than a profile returned.
C23_RankedAndTruncated ==
    unit_kind = "search" /\ unit_result # <<>> =>
        LET result == unit_result[1] IN
        /\ \A i, j \in DOMAIN result : result[i].id = result[j].id => i = j
        /\ Len(result) <= max_per_unit
        /\ \A i, j \in DOMAIN result : i < j => result[i].engagement >= result[j].engagement
        /\ \A id \in CapturedIds :
              RecordsOf(result, id) = {} =>
                  \A k \in DOMAIN result : FirstCaptured(id).engagement <= result[k].engagement

\* Three profiles were captured, the one with the lowest engagement first; the
\* limit of two left it out and the result is not in the order of capture.
C23_Witness ==
    /\ unit_kind = "search"
    /\ unit_result # <<>>
    /\ max_per_unit = 2
    /\ Cardinality(CapturedIds) = 3
    /\ Len(unit_result[1]) = 2
    /\ all_items[1].engagement = 0
    /\ RecordsOf(unit_result[1], all_items[1].id) = {}
    /\ \E id \in CapturedIds : Cardinality(RecordsOf(all_items, id)) > 1

----------------------------------------------------------------------------
\* Properties of the workflow run

Travel == <<"t">>

\* The units of a phase given to its scraper so far, in order.
AttemptsOf(phase) ==
    LET InPhase(a) == a.phase = phase
    IN  SelectSeq(run_hist.attempts, InPhase)

ItemsOf(attempts) == [i \in DOMAIN attempts |-> attempts[i].item]

\* The run ended without a failed budget check and without an exception.
CompletedUncut == run_pc = "returned" /\ run_hist.cut_at = "" /\ ~run_hist.raised

\* C15 (as claimed): a fresh run on ['travel'] for which the search found profiles
\* A and B (1 and 2), completed, has hashtag_to_profiles[travel] = {A, B}, has
\* given A and B to the profile loader, holds the posts the loader returned for a
\* profile as its profile_to_posts, has comments for every post whose comment
\* loading did not fail, and has in failed_profiles the profiles without posts.
C15_TravelWorkflow ==
    (/\ CompletedUncut
     /\ ~run.resumed
     /\ run.hashtags = <<Travel>>
     /\ GetOr(run.search_results, NormalizeHashtag(Travel)) \in {<<1, 2>>, <<2, 1>>})
    =>
    /\ Gives(orch.hashtag_to_profiles, Travel, {1, 2})
    /\ Range(ItemsOf(AttemptsOf("profiles"))) = {1, 2}
    /\ \A k \in DOMAIN AttemptsOf("profiles") :
          LET a == AttemptsOf("profiles")[k]
          IN  IF a.got # <<>>
              THEN Gives(orch.profile_to_posts, a.item, Range(a.got))
              ELSE a.item \in Range(orch.failed_profiles)
    /\ \A p \in orch.posts_data \ run_hist.comment_failures :
          p \in DOMAIN orch.post_to_comments /\ orch.post_to_comments[p] # {}

\* C16: a hashtag or profile that fails does not end its loop. While a loop runs,
\* the items attempted are exactly those before the current position, once each
\* and in order; a loop that was left without a failed budget check or an
\* exception has attempted its whole list; and every hashtag or profile attempted
\* that gave nothing is in failed_hashtags or failed_profiles.
C16_FailuresDoNotAbortPhase ==
    /\ run_pc = "search_loop" =>
          ItemsOf(AttemptsOf("search")) = SubSeq(run.items, 1, run.idx - 1)
    /\ run_pc = "profiles_loop" =>
          ItemsOf(AttemptsOf("profiles")) = SubSeq(run.todo, 1, run.idx - 1)
    /\ (/\ run_pc \in {"profiles_check", "profiles_loop", "comments_check", "comments_loop",
                       "finish", "returned"}
        /\ run.resume_phase = "search"
        /\ run_hist.cut_at \notin {"search_check", "search_loop"}) =>
          ItemsOf(AttemptsOf("search")) = run.items
    /\ (/\ run_pc \in {"comments_check", "comments_loop", "finish", "returned"}
        /\ run.resume_phase \in {"search", "profiles"}
        /\ run_hist.cut_at \notin {"search_check", "search_loop", "profiles_check", "profiles_loop"}) =>
          ItemsOf(AttemptsOf("profiles")) = run_hist.profiles_list
    /\ \A k \in DOMAIN run_hist.attempts :
          LET a == run_hist.attempts[k]
          IN  a.got = <<>> =>
                 a.item \in Range(IF a.phase = "search" THEN orch.failed_hashtags
                                  ELSE orch.failed_profiles)

\* The first of two profiles gave no posts, the second gave some, and the profiles
\* phase is over.
C16_Witness ==
    /\ run_pc = "comments_check"
    /\ Len(AttemptsOf("profiles")) = 2
    /\ AttemptsOf("profiles")[1].got = <<>>
    /\ AttemptsOf("profiles")[2].got # <<>>
    /\ Len(AttemptsOf("search")) = 2

\* C17 (as claimed): every post whose comment loading failed in the comments phase
\* is in the orchestrator's failed_posts.
C17_FailedPostsRecorded ==
    run_hist.comment_failures \subseteq Range(orch.failed_posts)

\* C19 (as claimed): a resumed run that has ended has removed the file it loaded
\* exactly when it completed without being cut short, and a run stopped by the
\* budget or by an exception has not announced its completion.
C19_CheckpointDeletedOnlyOnCompletion ==
    (run_pc \in {"returned", "raised"} /\ run.resumed) =>
        /\ run_hist.deleted <=> CompletedUncut
        /\ ~CompletedUncut => ~run_hist.success

----------------------------------------------------------------------------
\* Properties of the order of the phases

\* The place of a phase in IDLE, SEARCH, PROFILES, COMMENTS, COMPLETE.
PhaseRank(phase) ==
    CASE phase = "idle" -> 0
      [] phase = "search" -> 1
      [] phase = "profiles" -> 2
      [] phase = "comments" -> 3
      [] OTHER -> 4

\* The phase run_full_workflow is in at a position.
PhaseAt(pc) ==
    CASE pc = "idle" -> "idle"
      [] pc \in {"search_check", "search_loop"} -> "search"
      [] pc \in {"profiles_check", "profiles_loop"} -> "profiles"
      [] pc \in {"comments_check", "comments_loop"} -> "comments"
      [] OTHER -> "complete"

\* The phases of the units given to the scrapers so far, in order.
AttemptedPhases == [i \in DOMAIN run_hist.attempts |-> run_hist.attempts[i].phase]

\* A run that came back from a checkpoint is nowhere before its resume point.
FromResumePoint ==
    run.resumed /\ run_pc # "idle" =>
        /\ PhaseRank(PhaseAt(run_pc)) >= PhaseRank(run.resume_phase)
        /\ run.current_phase = "idle" \/ PhaseRank(run.current_phase) >= PhaseRank(run.resume_phase)
        /\ \A i \in DOMAIN AttemptedPhases :
              PhaseRank(AttemptedPhases[i]) >= PhaseRank(run.resume_phase)

\* C21: within one run the phase of the workflow, and session_state.current_phase
\* with it, only moves forward in the order IDLE, SEARCH, PROFILES, COMMENTS,
\* COMPLETE; the units given to the scrapers come in that order; and a resumed run
\* starts at its resume point and never is in, or works on, a phase before it.
C21_PhasesOnlyAdvance ==
    [][/\ PhaseRank(PhaseAt(run_pc')) >= PhaseRank(PhaseAt(run_pc))
       /\ PhaseRank(run.current_phase') >= PhaseRank(run.current_phase)
       /\ \A i, j \in DOMAIN AttemptedPhases' :
             i <= j => PhaseRank(AttemptedPhases[i]') <= PhaseRank(AttemptedPhases[j]')
       /\ PhaseRank(run.current_phase') <= PhaseRank(PhaseAt(run_pc'))
       /\ FromResumePoint']_vars

\* A run resumed at the profiles phase has loaded the posts of a profile and has
\* gone on to the comments phase.
C21_Witness ==
    /\ run.resumed
    /\ run.resume_phase = "profiles"
    /\ run.current_phase = "comments"
    /\ \E i \in DOMAIN AttemptedPhases : AttemptedPhases[i] = "profiles"
    /\ run_pc = "returned"

----------------------------------------------------------------------------
\* Properties of the account rotation

\* The account of the file with a username is in cooldown.
InCooldown(username) ==
    \E k \in DOMAIN accounts : accounts[k].username = username /\ accounts[k].lastFailure = "recent"

\* C25: the list get_working_accounts returned holds no account whose lastFailure
\* lies within the cooldown period; the rotation attempts no account that is in
\* cooldown when it is attempted; and it attempts each account at most once.
C25_CooldownExcluded ==
    [][/\ \A k \in DOMAIN working_accounts' : working_accounts'[k].lastFailure # "recent"
       /\ Len(auth_hist.attempts') > Len(auth_hist.attempts) =>
             ~InCooldown(auth_hist.attempts'[Len(auth_hist.attempts')])
       /\ \A i, j \in DOMAIN auth_hist.attempts' :
             auth_hist.attempts'[i] = auth_hist.attempts'[j] => i = j]_vars

\* The rotation attempted an account while another account of the file, marked as
\* working, was in cooldown, and it did not attempt that one.
C25_Witness ==
    /\ auth_pc = "browser_check"
    /\ auth_hist.attempts # <<>>
    /\ \E k \in DOMAIN accounts :
          /\ accounts[k].isWorking /\ accounts[k].lastFailure = "recent"
          /\ accounts[k].has_credentials
          /\ accounts[k].username \notin Range(auth_hist.attempts)

\* The account was marked failed and the cooldown period has elapsed since.
FailedLongAgo(account) == ~account.isWorking /\ account.lastFailure = "old"

\* C39 (as claimed): an account marked failed is returned by get_working_accounts
\* again once the cooldown period has elapsed since its lastFailure.
C39_EligibleAfterCooldown ==
    \A k \in DOMAIN accounts :
        FailedLongAgo(accounts[k]) =>
            \E j \in DOMAIN get_working_accounts :
                get_working_accounts[j].username = accounts[k].username

----------------------------------------------------------------------------
\* Properties of the retrieval after an error and after the stop

\* C24: a retrieval whose fetch failed with an error that is neither a timeout nor
\* a missing resource sends no further fetch: it is over, and it has appended
\* exactly one response, with a null body and the error field.
C24_OtherErrorsNotRetried ==
    \A t \in fetch_errors.met :
        /\ t \notin fetch_errors.fetched_again
        /\ tasks[t].pc = "done"
        /\ tasks[t].outcome = "failed"
        /\ Cardinality(ResponsesBy(t)) = 1
        /\ \A k \in ResponsesBy(t) :
              matched_responses[k].body = "null" /\ matched_responses[k].error

\* What a step may do once is_running is False: only a retrieval whose fetch was
\* sent before may still change something.
AfterStop ==
    /\ tracked_requests' = tracked_requests
    /\ Len(infos') = Len(infos)
    /\ Len(tasks') = Len(tasks)
    /\ \A t \in DOMAIN tasks :
          /\ tasks'[t].pc = "fetching" => tasks[t].pc = "fetching"
          /\ tasks[t].pc \in {"created", "loop"} /\ tasks'[t] # tasks[t] => Abandoned(t)'
          /\ tasks[t].pc = "fetching" /\ tasks'[t] # tasks[t] =>
                tasks'[t].pc = "loop" \/ Ended(t)'
          /\ tasks[t].pc = "done" => tasks'[t] = tasks[t]
    /\ \/ matched_responses' = matched_responses /\ infos' = infos
       \/ \E t \in DOMAIN tasks :
             /\ tasks[t].pc = "fetching" /\ Ended(t)'
             /\ matched_responses' \in {Append(matched_responses, SuccessResponse(t)),
                                        Append(matched_responses, FailedResponse(t))}
             /\ \A i \in DOMAIN infos : i # tasks[t].info => infos'[i] = infos[i]

\* C26: once is_running is False no event handler changes tracked_requests (nor a
\* RequestInfo in it) or matched_responses or schedules a retrieval; a retrieval
\* that has not sent its fetch, or waits for its next attempt, sends none and ends
\* abandoned; a fetch that was sent before is not cancelled: its result is handled
\* as ever.
C26_StopQuiescesHandlers == [][~is_running => AfterStop]_vars

\* After the stop a fetch sent before it is still in flight, while another
\* retrieval has been abandoned.
C26_Witness ==
    /\ ~is_running
    /\ \E t, u \in DOMAIN tasks : tasks[t].pc = "fetching" /\ Abandoned(u)

\* Of two retrievals one met such an error and the other retrieved its body, while
\* the monitor is running.
C24_Witness ==
    /\ is_running
    /\ \E t \in fetch_errors.met, u \in DOMAIN tasks :
          /\ u # t
          /\ tasks[u].outcome = "retrieved"
          /\ ResponsesBy(t) # {}

----------------------------------------------------------------------------
\* Properties of the comments loader

\* The posts the loop has left behind.
PostsDone ==
    {p \in 1..total_posts_to_process :
        p < current_post_index \/ (p = current_post_index /\ loader_pc \in {"next", "done"})}

\* C27 (as claimed): for every post whose link was clicked _close_post has been
\* called before the loop goes on to the next post, on every path, and no post is
\* opened while an earlier one is still open.
C27_PostClosedBeforeNext ==
    /\ \A p \in PostsDone : p \in loader_hist.clicked => p \in loader_hist.close_called
    /\ ~loader_hist.opened_over

\* C28 (as claimed): _wait_for_comment_section is over once the timeout has
\* passed, and it gives up on the invalid-state error exactly at the third such
\* error, whatever other query errors came in between.
C28_ThirdInvalidStateGivesUp ==
    /\ wait_pc = "loop" => wait_elapsed <= comment_section_wait_timeout + 1
    /\ wait_pc = "invalid_state_retries" => wait_hist.invalid_state = 3
    /\ wait_pc = "loop" => wait_hist.invalid_state < 3

----------------------------------------------------------------------------
\* Properties of verify_login_status

\* The checks in their order.
CheckOrder == <<"url", "buttons", "elements", "text">>

\* The check finds its indicator on the page, without an exception.
IndicatorFound(name) ==
    CASE name = "url" -> page_checks.url = "login"
      [] name = "buttons" -> \E i \in DOMAIN page_checks.buttons : page_checks.buttons[i] = "found"
      [] name = "elements" -> \E i \in DOMAIN page_checks.elements : page_checks.elements[i] = "found"
      [] OTHER -> page_checks.text = "found"

\* C29: verify_login_status runs URL, login buttons, login page elements, login
\* text in this order and stops at the first check that finds its indicator; it
\* returns True iff no check finds its indicator, a check that raises counting as
\* one that found nothing.
C29_ChecksInOrder ==
    /\ Len(verify_log.checks) <= Len(CheckOrder)
    /\ \A k \in DOMAIN verify_log.checks :
          /\ verify_log.checks[k] = CheckOrder[k]
          /\ k < Len(verify_log.checks) => ~IndicatorFound(CheckOrder[k])
    /\ verify_pc = "returned" =>
          /\ verify_log.ret # <<>>
          /\ verify_log.ret[1] <=> \A k \in DOMAIN CheckOrder : ~IndicatorFound(CheckOrder[k])
          /\ verify_log.ret[1] => verify_log.checks = CheckOrder
          /\ ~verify_log.ret[1] => IndicatorFound(verify_log.checks[Len(verify_log.checks)])
    /\ verify_pc # "returned" /\ verify_pc # "idle" => verify_log.ret = <<>>

\* The URL could not be read, a button selector and an element selector raised,
\* and the call returned True.
C29_Witness ==
    /\ verify_pc = "returned"
    /\ verify_log.ret = <<TRUE>>
    /\ page_checks.url = "raises"
    /\ page_checks.buttons[2] = "raises"
    /\ page_checks.elements[1] = "raises"

----------------------------------------------------------------------------
\* Properties of the entity maps during a run

\* A turn of a loop of the workflow keeps what the maps hold.
CaptureKeepsRecords ==
    run_pc \in {"search_loop", "profiles_loop", "comments_loop"} =>
        /\ \A u \in DOMAIN orch.profiles_data :
              /\ u \in DOMAIN orch'.profiles_data
              /\ \/ orch'.profiles_data[u] = orch.profiles_data[u]
                 \/ /\ run_pc = "profiles_loop"
                    /\ run.idx \in DOMAIN run.todo
                    /\ u = run.todo[run.idx]
                    /\ orch'.profiles_data[u].search_timestamp =
                           orch.profiles_data[u].search_timestamp
        /\ orch.posts_data \subseteq orch'.posts_data
        /\ orch.comments_data \subseteq orch'.comments_data

\* C31 (as claimed): a turn of the search, profiles or comments loop leaves the
\* record of every user id already in profiles_data as it is, apart from the
\* posts count the profiles loop records for the profile it loaded, and keeps
\* every post id and comment id that is recorded.
C31_FirstSeenWins == [][CaptureKeepsRecords]_vars

----------------------------------------------------------------------------
\* Properties of resumed runs

\* The profiles whose posts were loaded, with their count recorded, when the
\* checkpoint the run resumed from was written.
LoadedBeforeCheckpoint ==
    IF run.resumed /\ run.loaded \in DOMAIN saved_files
    THEN LET before == saved_files[run.loaded].origin.profiles_data
         IN  {u \in DOMAIN before : before[u].has_posts_count /\ before[u].posts_count > 0}
    ELSE {}

\* C35 (as claimed): a profile whose posts were loaded before the checkpoint is
\* not pending after the checkpoint is loaded, is not the reason for resuming at
\* the profiles phase, and is not given to load_profile_posts again.
C35_FinishedProfilesNotRepeated ==
    /\ run_hist.attempts = <<>> => LoadedBeforeCheckpoint \cap ProfilesToProcess(orch) = {}
    /\ \A k \in DOMAIN run_hist.attempts :
          run_hist.attempts[k].phase = "profiles" =>
              run_hist.attempts[k].item \notin LoadedBeforeCheckpoint

\* The run was ended before every unit pending at its resume point was
\* attempted: by an exception, or by the budget in or before the loop of the
\* phase it resumed at.
PrematureEnd ==
    \/ run_hist.raised
    \/ run_hist.cut_at \in
          CASE run.resume_phase = "search" -> {"search_check", "search_loop"}
            [] run.resume_phase = "profiles" -> {"profiles_check", "profiles_loop"}
            [] OTHER -> {"comments_check", "comments_loop"}

ResumeComplete == run.resumed /\ run.resume_phase = "complete"

\* C36 (as claimed): when run follows run without end and, from some run on,
\* every run is resumed from the latest checkpoint and none is ended before its
\* pending units were attempted, some run computes the resume point "complete"
\* (a run that reaches the end of the workflow is counted as well).
C36_ResumedRunsReachComplete ==
    (/\ []<>(run_pc = "idle")
     /\ []<>(run_pc # "idle")
     /\ <>[](run_pc # "idle" => run.resumed /\ ~PrematureEnd))
        => <>(ResumeComplete \/ run_pc = "finish")

\* A resumed run takes a turn of the loop of the comments phase for a profile of
\* profiles_data: load_posts_from_profile_loader is called for it.
ResumedCommentsTurn ==
    /\ run.resumed
    /\ run_pc = "comments_loop"
    /\ run.idx <= Len(run.todo)
    /\ run'.idx = run.idx + 1
    /\ run.todo[run.idx] \in DOMAIN orch.profiles_data

HoldsAllOf(f, g) ==
    /\ DOMAIN g.data.hashtags \subseteq DOMAIN f.data.hashtags
    /\ g.data.profiles \subseteq f.data.profiles
    /\ g.data.posts \subseteq f.data.posts
    /\ g.data.comments \subseteq f.data.comments

\* A step that wrote a checkpoint into a directory that had one.
WroteOverCheckpoint ==
    /\ saved_files # <<>>
    /\ saved_files' # saved_files
    /\ saved_files' # <<>>
    /\ saved_files' = WithNewFile(saved_files, saved_files'[1])

\* C37 (as claimed): a checkpoint written into the directory holds every
\* hashtag, profile, post and comment of the checkpoint that was the most recent
\* before it.
C37_NewerCheckpointHoldsOlder ==
    [][WroteOverCheckpoint => HoldsAllOf(saved_files'[1], saved_files[1])]_vars

----------------------------------------------------------------------------
\* Properties of a monitor on the shared page

\* The retrieval tasks that appended a response for the request id to
\* matched_responses.
CapturedFor(id) ==
    {t \in DOMAIN tasks : /\ infos[tasks[t].info].request_id = id
                          /\ tasks[t].pc = "done"
                          /\ tasks[t].outcome \in {"retrieved", "failed"}}

\* C32 (as claimed): once the comments loader has inherited the session, a
\* matching request that went through request-initiated, response-headers and
\* loading-finished leads to a response in the loader's matched_responses.
C32_InheritedLoaderCaptures ==
    \A id \in ReqIds :
        (session_inherited /\ page_stage[id] = "finished") ~> (CapturedFor(id) # {})

\* C33 (as claimed): every response in the buffer of the unit under way comes
\* from a request initiated after the buffer was emptied for that unit.
C33_BufferHoldsOwnUnitOnly ==
    \A k \in DOMAIN matched_responses : info_unit[matched_responses[k].info] = unit_no

\* C34 (as claimed): a request whose loading-finished event was handled reaches
\* BODY_RETRIEVED or FAILED, while is_running stays true and every fetch ends.
C34_LoadingFinishedReachesTerminal ==
    \A i \in 1..MaxInfos :
        (i \in DOMAIN infos /\ hist[i] > 0) ~> (i \in DOMAIN infos /\ Terminal(infos[i].state))

----------------------------------------------------------------------------
\* Properties of the saved data directory

\* C30: after _save_current_state at most keep_count files are in the directory;
\* when it wrote a file, that file is among them, and every file its clean-up
\* removed is older than every file that remains.
C30_KeepsMostRecent ==
    /\ just_saved.what # "none" => Cardinality(saved_dir) <= keep_count
    /\ just_saved.what = "written" =>
          /\ FileWrittenAt(save_clock) \in saved_dir
          /\ \A f \in saved_dir, g \in just_saved.removed : g.mtime < f.mtime
          /\ just_saved.removed # {} => Cardinality(saved_dir) = keep_count

----------------------------------------------------------------------------
\* Properties of the size classes

\* What a small response gets.
SmallInfo == RequestInfo("r1")

\* C22: is_large_response is set iff the declared content-length is strictly
\* greater than the threshold, and a large response gets a strictly longer initial
\* delay and a strictly longer fetch timeout than a small one, whatever the
\* timeout the monitor was configured with.
C22_LargeResponsesGetMoreTime ==
    /\ request_info.content_length # {} =>
          (request_info.is_large_response <=>
              \E n \in request_info.content_length : n > large_response_threshold)
    /\ request_info.content_length = {} => ~request_info.is_large_response
    /\ retrieval # <<>> /\ request_info.is_large_response =>
          /\ retrieval[1].initial_delay > InitialDelay(SmallInfo)
          /\ retrieval[1].timeout # 0 => retrieval[1].timeout > FetchTimeout(timeout, SmallInfo)

----------------------------------------------------------------------------
\* Specifications

\* The correlation engine.
Init == InitMonitor /\ AuthIdle /\ BudgetIdle /\ FlowIdle /\ ResumeIdle /\ DataIdle

Next ==
    \/ \E id \in ReqIds, m \in BOOLEAN : OnRequestWillBeSent(id, m) /\ UNCHANGED <<authVars, budgetVars, flowVars, resumeVars, dataVars>>
    \/ \E id \in ReqIds, h \in MonitorHeaders : OnResponseReceived(id, h) /\ UNCHANGED <<authVars, budgetVars, flowVars, resumeVars, dataVars>>
    \/ \E id \in ReqIds : OnDataReceived(id)
    \/ \E id \in ReqIds : OnLoadingFinished(id) /\ UNCHANGED <<authVars, budgetVars, flowVars, resumeVars, dataVars>>
    \/ \E id \in ReqIds : OnLoadingFailed(id) /\ UNCHANGED <<authVars, budgetVars, flowVars, resumeVars, dataVars>>
    \/ \E t \in 1..MaxTasks : TaskBegin(t) /\ UNCHANGED <<authVars, budgetVars, flowVars, resumeVars, dataVars>>
    \/ \E t \in 1..MaxTasks : TaskAttempt(t) /\ UNCHANGED <<authVars, budgetVars, flowVars, resumeVars, dataVars>>
    \/ \E t \in 1..MaxTasks, o \in FetchOutcomes : TaskFetchResult(t, o) /\ UNCHANGED <<authVars, budgetVars, flowVars, resumeVars, dataVars>>
    \/ StopBrowser /\ UNCHANGED <<authVars, budgetVars, flowVars, resumeVars, dataVars>>

Spec == Init /\ [][Next]_vars

\* The session start-up.
InitAuthSpec == InitMonitor /\ InitAuth /\ BudgetIdle /\ FlowIdle /\ ResumeIdle /\ DataIdle

engineVars == <<tracked_requests, infos, tasks, matched_responses, hist, fetch_errors, budgetVars, flowVars,
                resumeVars, dataVars>>

NextAuthSpec ==
    \/ StartSession /\ UNCHANGED <<is_running, engineVars>>
    \/ \E valid \in BOOLEAN : EnsureAuthenticatedSession(valid) /\ UNCHANGED <<is_running, engineVars>>
    \/ \E o \in LoginOutcomes : LoginAttempt(o) /\ UNCHANGED <<is_running, engineVars>>
    \/ LoginLoopExit /\ UNCHANGED <<is_running, engineVars>>
    \/ StartBrowserCheck /\ UNCHANGED engineVars
    \/ RunFullWorkflow /\ UNCHANGED engineVars
    \/ EndSession /\ UNCHANGED engineVars

SpecAuth == InitAuthSpec /\ [][NextAuthSpec]_vars

\* SessionState.should_continue called at arbitrary times.
InitBudgetSpec == InitMonitor /\ AuthIdle /\ InitBudget /\ FlowIdle /\ ResumeIdle /\ DataIdle

NextBudgetSpec ==
    \/ Tick /\ UNCHANGED <<monVars, authVars, flowVars, resumeVars, dataVars>>
    \/ ShouldContinue /\ UNCHANGED <<monVars, authVars, flowVars, resumeVars, dataVars>>

SpecBudget == InitBudgetSpec /\ [][NextBudgetSpec]_vars

\* run_full_workflow of a fresh scrape, with or without a started session.
InitFlowSpec ==
    /\ InitMonitor
    /\ (AuthIdle \/ AuthActive)
    /\ InitBudget
    /\ InitFlow
    /\ ResumeIdle
    /\ DataIdle

NextFlowSpec ==
    \/ FlowStart /\ UNCHANGED <<monVars, authVars, resumeVars, dataVars>>
    \/ SearchPhaseCheck /\ UNCHANGED <<monVars, authVars, resumeVars, dataVars>>
    \/ \E d \in UnitSeconds : SearchHashtag(d) /\ UNCHANGED <<monVars, authVars, resumeVars, dataVars>>
    \/ SearchResultsCheck /\ UNCHANGED <<monVars, authVars, resumeVars, dataVars>>
    \/ \E found \in BOOLEAN : ProcessResults(found) /\ UNCHANGED <<monVars, authVars, resumeVars, dataVars>>
    \/ ProfilesPhaseCheck /\ UNCHANGED <<monVars, authVars, resumeVars, dataVars>>
    \/ ProfilesLoopCheck /\ UNCHANGED <<monVars, authVars, resumeVars, dataVars>>
    \/ \E d \in UnitSeconds, posts \in BOOLEAN :
          LoadProfilePosts(d, posts) /\ UNCHANGED <<monVars, authVars, resumeVars, dataVars>>
    \/ CommentsPhaseCheck /\ UNCHANGED <<monVars, authVars, resumeVars, dataVars>>
    \/ CommentsLoopCheck /\ UNCHANGED <<monVars, authVars, resumeVars, dataVars>>
    \/ \E d \in UnitSeconds : LoadAllComments(d) /\ UNCHANGED <<monVars, authVars, resumeVars, dataVars>>

SpecFlow == InitFlowSpec /\ [][NextFlowSpec]_vars

\* _determine_resume_point applied to the checkpoints within the bounds.
InitResumeSpec == InitMonitor /\ AuthIdle /\ BudgetIdle /\ FlowIdle /\ InitResume /\ DataIdle

NextResumeSpec ==
    \/ DetermineResumePoint /\ UNCHANGED <<monVars, authVars, budgetVars, flowVars, dataVars>>

SpecResume == InitResumeSpec /\ [][NextResumeSpec]_vars

\* The orchestrator's operations on its data in any order, with checkpoints.
otherVars == <<monVars, authVars, budgetVars, flowVars, resumeVars, unitVars, runVars, auxVars>>

InitGraphSpec ==
    InitMonitor /\ AuthIdle /\ BudgetIdle /\ FlowIdle /\ ResumeIdle /\ DataIdle

NextGraphSpec ==
    \/ \E h \in HashtagInputs, found \in DistinctSeqs(UserIds, MaxSavedProfiles) :
          SearchResultsStored(h, found) /\ UNCHANGED otherVars
    \/ \E u \in UserIds, posts \in DistinctSeqs(PostIds, MaxSavedPosts) :
          ProfilePostsStored(u, posts) /\ UNCHANGED otherVars
    \/ \E u \in UserIds, results \in CommentResults :
          CommentsStored(u, results) /\ UNCHANGED otherVars
    \/ \E posts \in DistinctSeqs(PostIds, MaxSavedPosts), mapping \in DistinctSeqs(UserIds, MaxSavedProfiles) :
          RunFromPostsSetUp(posts, mapping) /\ UNCHANGED otherVars
    \/ \E profiles \in DistinctSeqs(UserIds, MaxSavedProfiles), tagged \in SeqsUpTo(HashtagInputs, 1) :
          RunFromProfilesSetUp(profiles, tagged) /\ UNCHANGED otherVars
    \/ SaveCurrentState /\ UNCHANGED otherVars
    \/ \E check \in BOOLEAN : LoadSavedState(check) /\ UNCHANGED otherVars

SpecGraph == InitGraphSpec /\ [][NextGraphSpec]_vars

\* One unit of a phase scraper after the other.
InitUnitSpec ==
    InitMonitor /\ AuthIdle /\ BudgetIdle /\ FlowIdle /\ ResumeIdle /\ GraphIdle /\ RunIdle /\ AuxIdle /\ InitUnit

NextUnitSpec ==
    \/ \E items \in ResponseItems : CaptureResponse(items) /\ UNCHANGED otherUnitVars
    \/ SearchHashtagResult /\ UNCHANGED otherUnitVars
    \/ LoadProfilePostsResult /\ UNCHANGED otherUnitVars
    \/ ProcessPostCommentsResult /\ UNCHANGED otherUnitVars
    \/ \E kind \in UnitKinds, limit \in 1..MaxPerUnit : ClearResponses(kind, limit) /\ UNCHANGED otherUnitVars

SpecUnit == InitUnitSpec /\ [][NextUnitSpec]_vars

\* One call of run_full_workflow, fresh or resumed from a saved file.
InitRunSpec ==
    InitMonitor /\ AuthIdle /\ BudgetIdle /\ FlowIdle /\ ResumeIdle /\ AuxIdle /\ InitRun

NextRunSpec ==
    \/ \E hs \in HashtagLists : RunBegin(hs) /\ UNCHANGED otherRunVars
    \/ \E found \in SeqsUpTo(DistinctSeqs(UserIds, MaxSavedProfiles), MaxHashtags) :
          RunSearchPhase(found) /\ UNCHANGED otherRunVars
    \/ RunSearchTurn /\ UNCHANGED otherRunVars
    \/ \E order \in DistinctSeqs(UserIds, MaxSavedProfiles) : RunProfilesPhase(order) /\ UNCHANGED otherRunVars
    \/ \E posts \in DistinctSeqs(PostIds, MaxSavedPosts) : RunProfilesTurn(posts) /\ UNCHANGED otherRunVars
    \/ \E order \in DistinctSeqs(UserIds, MaxSavedProfiles) : RunCommentsPhase(order) /\ UNCHANGED otherRunVars
    \/ \E found \in SeqsUpTo(DistinctSeqs(CommentIds, MaxComments), MaxSavedPosts) :
          RunCommentsTurn(found) /\ UNCHANGED otherRunVars
    \/ RunFinish /\ UNCHANGED otherRunVars
    \/ RunRaise /\ UNCHANGED otherRunVars
    \/ TimeRunsOut /\ UNCHANGED otherRunVars

SpecRun == InitRunSpec /\ [][NextRunSpec]_vars

\* One tracked request of a monitor with any timeout, up to its first fetch.
InitSizeSpec ==
    /\ InitMonitor /\ AuthIdle /\ BudgetIdle /\ FlowIdle /\ ResumeIdle
    /\ GraphIdle /\ UnitIdle /\ RunIdle
    /\ LoaderIdle /\ WaitIdle /\ VerifyIdle /\ FilesIdle /\ PageIdle
    /\ InitSize

NextSizeSpec ==
    \/ \E h \in ContentLengthHeaders : SizeResponseReceived(h) /\ UNCHANGED otherSizeVars
    \/ SizeLoadingFinished /\ UNCHANGED otherSizeVars
    \/ SizeAttempt /\ UNCHANGED otherSizeVars

SpecSize == InitSizeSpec /\ [][NextSizeSpec]_vars

CoreIdle ==
    /\ InitMonitor /\ AuthIdle /\ BudgetIdle /\ FlowIdle /\ ResumeIdle
    /\ GraphIdle /\ UnitIdle /\ RunIdle

\* load_all_comments for the posts of one profile.
InitLoaderSpec == CoreIdle /\ SizeIdle /\ WaitIdle /\ VerifyIdle /\ FilesIdle /\ PageIdle /\ InitLoader

NextLoaderSpec ==
    \/ \E found \in BOOLEAN : LoaderFindVideoLink(found) /\ UNCHANGED otherLoaderVars
    \/ \E raises \in BOOLEAN : LoaderClick(raises) /\ UNCHANGED otherLoaderVars
    \/ \E found \in BOOLEAN : LoaderWaitForCommentSection(found) /\ UNCHANGED otherLoaderVars
    \/ \E raises \in BOOLEAN : LoaderScroll(raises) /\ UNCHANGED otherLoaderVars
    \/ \E outcome \in ClosePostOutcomes :
          LoaderClosePost(outcome) /\ UNCHANGED otherLoaderVars
    \/ LoaderNextPost /\ UNCHANGED otherLoaderVars

SpecLoader == InitLoaderSpec /\ [][NextLoaderSpec]_vars

\* One call of _wait_for_comment_section.
InitWaitSpec == CoreIdle /\ SizeIdle /\ LoaderIdle /\ VerifyIdle /\ FilesIdle /\ PageIdle /\ InitWait

NextWaitSpec ==
    \/ \E outcome \in QueryOutcomes : WaitIteration(outcome) /\ UNCHANGED otherWaitVars

SpecWait == InitWaitSpec /\ [][NextWaitSpec]_vars

\* One call of verify_login_status on any page.
InitVerifySpec == CoreIdle /\ SizeIdle /\ LoaderIdle /\ WaitIdle /\ FilesIdle /\ PageIdle /\ InitVerify

NextVerifySpec ==
    \/ VerifyUrl /\ UNCHANGED otherVerifyVars
    \/ VerifyButtons /\ UNCHANGED otherVerifyVars
    \/ VerifyElements /\ UNCHANGED otherVerifyVars
    \/ VerifyText /\ UNCHANGED otherVerifyVars

SpecVerify == InitVerifySpec /\ [][NextVerifySpec]_vars

\* The saved data directory over the saves of one run.
InitFilesSpec == CoreIdle /\ SizeIdle /\ LoaderIdle /\ WaitIdle /\ VerifyIdle /\ PageIdle /\ InitFiles

NextFilesSpec ==
    \/ \E outcome \in SaveOutcomes : SaveToDirectory(outcome) /\ UNCHANGED otherFilesVars
    \/ CleanupCurrentSavedFile /\ UNCHANGED otherFilesVars
    \/ SecondPasses /\ UNCHANGED otherFilesVars

SpecFiles == InitFilesSpec /\ [][NextFilesSpec]_vars

\* A monitor on the shared page, from its start or its inheriting to the
\* responses of its units.
InitPageSpec ==
    /\ CoreIdle /\ SizeIdle /\ LoaderIdle /\ WaitIdle /\ VerifyIdle /\ FilesIdle
    /\ InitPage

PageTaskStep ==
    \/ \E t \in 1..MaxTasks : TaskBegin(t) /\ UNCHANGED <<pageVars, otherPageVars>>
    \/ \E t \in 1..MaxTasks : TaskAttempt(t) /\ UNCHANGED <<pageVars, otherPageVars>>
    \/ \E t \in 1..MaxTasks, o \in FetchOutcomes :
          TaskFetchResult(t, o) /\ UNCHANGED <<pageVars, otherPageVars>>

NextPageSpec ==
    \/ InheritSessionFromProfileLoader /\ UNCHANGED otherPageVars
    \/ \E id \in ReqIds, m \in BOOLEAN : PageRequestWillBeSent(id, m) /\ UNCHANGED otherPageVars
    \/ \E id \in ReqIds, h \in MonitorHeaders : PageResponseReceived(id, h) /\ UNCHANGED otherPageVars
    \/ \E id \in ReqIds : PageLoadingFinished(id) /\ UNCHANGED otherPageVars
    \/ NextUnitClearsResponses /\ UNCHANGED otherPageVars
    \/ PageTaskStep

SpecPage == InitPageSpec /\ [][NextPageSpec]_vars

\* The same, where the page goes on emitting the events of a request and every
\* retrieval task goes on running: every fetch returns or times out.
SpecPageLive == SpecPage /\ WF_vars(NextPageSpec)

\* The runs of one job, one process after the other, each calling
\* run_complete_session_with_resume with the same hashtags.
InitRunsSpec ==
    /\ InitMonitor /\ AuthIdle /\ BudgetIdle /\ FlowIdle /\ ResumeIdle /\ AuxIdle
    /\ GraphIdle /\ UnitIdle /\ RunIdle

RunsWorkflowStep ==
    \/ RunBegin(WorldHashtags) /\ UNCHANGED otherRunVars
    \/ \E found \in {<<>>, <<WorldProfiles>>} : RunSearchPhase(found) /\ UNCHANGED otherRunVars
    \/ RunSearchTurn /\ UNCHANGED otherRunVars
    \/ \E order \in DistinctSeqs(UserIds, MaxSavedProfiles) : RunProfilesPhase(order) /\ UNCHANGED otherRunVars
    \/ \E posts \in {<<>>, <<1>>} :
          /\ FromWorld("profiles_loop", posts, WorldPosts(run.todo[run.idx]))
          /\ RunProfilesTurn(posts) /\ UNCHANGED otherRunVars
    \/ \E order \in DistinctSeqs(UserIds, MaxSavedProfiles) : RunCommentsPhase(order) /\ UNCHANGED otherRunVars
    \/ \E found \in {<<>>, <<<<1>>>>} :
          /\ FromWorld("comments_loop", found,
                       IF run.todo[run.idx] \in DOMAIN run.profile_posts
                       THEN WorldComments(run.profile_posts[run.todo[run.idx]]) ELSE <<>>)
          /\ RunCommentsTurn(found) /\ UNCHANGED otherRunVars
    \/ RunFinish /\ UNCHANGED otherRunVars

NextRunsSpec ==
    \/ RunsWorkflowStep
    \/ RunRaise /\ UNCHANGED otherRunVars
    \/ TimeRunsOut /\ UNCHANGED otherRunVars
    \/ StartSessionFails /\ UNCHANGED otherRunVars
    \/ NewProcess /\ UNCHANGED otherRunVars

SpecRuns == InitRunsSpec /\ [][NextRunsSpec]_vars

\* One process that finds a checkpoint, restorable or not, in the directory.
otherLoadVars == <<monVars, authVars, budgetVars, flowVars, resumeVars, unitVars, runVars, auxVars>>

InitLoadSpec ==
    InitMonitor /\ AuthIdle /\ BudgetIdle /\ FlowIdle /\ ResumeIdle /\ UnitIdle /\ RunIdle
        /\ AuxIdle /\ InitLoad

NextLoadSpec ==
    \/ LoadSavedStateOfProcess /\ UNCHANGED otherLoadVars
    \/ \E h \in HashtagInputs, found \in DistinctSeqs(UserIds, MaxSavedProfiles) :
          FreshScrapeAfterLoad(h, found) /\ UNCHANGED otherLoadVars

SpecLoad == InitLoadSpec /\ [][NextLoadSpec]_vars

\* Session start-up after session start-up on one accounts file.
InitPoolSpec ==
    InitMonitor /\ accounts \in NewAccountFiles /\ session_file \in BOOLEAN /\ InitAuthObjects
        /\ BudgetIdle /\ FlowIdle /\ ResumeIdle /\ DataIdle

NextPoolSpec ==
    \/ NextAuthSpec
    \/ \E k \in 1..MaxAccounts : CooldownElapses(k) /\ UNCHANGED engineVars
    \/ NextProcessStarts /\ UNCHANGED engineVars

SpecPool == InitPoolSpec /\ [][NextPoolSpec]_vars

\* Every run goes on until it returns or raises, and another process follows.
SpecRunsLive == SpecRuns /\ WF_vars(NextRunsSpec)

====
